---- MODULE Spec2Model ----
(***************************************************************************)
(* Claudex server-side session runtime: one session, its panes (PTY child, *)
(* read loop, monitor loop, scrollback), the websocket handler's           *)
(* subscription registry and fan-out, and the manager's delete/shutdown.   *)
(*                                                                         *)
(* Threads are modelled at the granularity of the locks the Go code takes: *)
(* one action is one critical section, or one transport send.  Handler.mu  *)
(* is a readers-writer lock: a broadcast holds it in read mode over all of *)
(* its sends (hmuReaders); the writers need hmuReaders = 0.                *)
(***************************************************************************)
EXTENDS Integers, Sequences, FiniteSets, TLC

\* ---- bounds of the model ------------------------------------------------
NConns == 2          \* websocket connections
MaxPanes == 2        \* pane objects ever allocated by CreatePane
MaxStarts == 2       \* children ever spawned by Pane.Start
MaxChunkLen == 2     \* bytes per emitted chunk (up to 4096 in the code)
ScrollbackCap == 3   \* scrollback ceiling in bytes (1024*1024 in the code)
MaxMsgs == 2         \* Spec: client messages handled
MaxReads == 2        \* Spec: PTY reads that return data
LifeMsgs == 3        \* SpecLife: client messages and delete requests handled
LifeReads == 1       \* SpecLife: PTY reads that return data
FairMsgs == 1        \* SpecFair: client messages handled
FairReads == 1       \* SpecFair: PTY reads that return data
FairChanges == 2     \* SpecFair: status changes by classification or timeout
MaxChars == 3        \* SpecRead: characters the child writes
MaxReadLen == 3      \* SpecRead: bytes one PTY read returns (up to 4096 in the code)
\* the tracker: the line buffer keeps MaxLines lines (50 in the source) and the
\* spinner and tool checks look at the RecentLines newest (5 in the source);
\* the time thresholds are in ticks of the monitor, in the source's order
\* InputWindow (5 s) < ThinkingTimeout (60 s) < ExecutingTimeout (5 min)
MaxLines == 3
RecentLines == 2
InputWindow == 1
ThinkingTimeout == 2
ExecutingTimeout == 3
TrackReads == 2      \* SpecTrack: PTY reads that return data
TrackMsgs == 1       \* SpecTrack: input messages
TrackChanges == 2    \* SpecTrack: status changes
StatusCalls == 2     \* SpecStatus: calls of UpdateSessionStatus
InputMsgs == 3       \* SpecInput: client messages
DeleteMsgs == 1
PersistMsgs == 2
PersistChanges == 1
SaveDelay == 2        \* the 5 s of the debounce timer, in clock steps
SaveReads == 2
MaxLeaves == 3
LayoutOps == 4
SubMsgs == 3
SubReads == 2
TickReads == 1
TickMsgs == 1
TickChanges == 2
PaneOps == 4          \* SpecPanes: calls of the pane API
MaxThreads == 3       \* SpecLocks: threads that run together
ResumeMsgs == 2       \* SpecResume: start and restart messages
MaxBytes == 4         \* SpecBytes: bytes the child writes
ResumeWindow == 24    \* hours: 24*time.Hour in handleStart and handleRestart

Conns == 1..NConns
Panes == 1..MaxPanes
Kids == 1..MaxStarts

VARIABLES
    exists,       \* the session is in Manager.sessions
    sessStatus,   \* Session.Status
    mainPane,     \* pane object in Session.panes["main"]; 0 = empty map
    nPanes,       \* pane objects allocated so far
    paneLayout,   \* Session.PaneLayout: the layout tree, or NilLayout
    paneKeys,     \* the keys of Session.panes: pane ids
    panes,        \* pane object -> Pane fields
    nKids,        \* children spawned so far
    kids,         \* child/PTY -> [alive, ptyOpen]
    rd,           \* readOutput goroutine of each Pane.Start
    mon,          \* monitorTimeouts goroutine of each Pane.Start
    statusCalls,  \* pending `go onStatus(st)` goroutines: status -> count
    conns,        \* keys of Handler.connections: the open connections
    subs,         \* connState.subscriptions[sessionID] per connection
    hpc,          \* handler goroutine of each connection: where it is
    hloc,         \* handler goroutine locals
    recv,         \* frames written to each connection's transport
    hmuReaders,   \* holders of Handler.mu.RLock
    saveTimer,    \* the armed timers of scheduleScrollbackSave: time left to each
    files,        \* storage directory: <id>.json, <id>.scrollback
    mgr,          \* control plane: delete request, shutdown handler
    nChunks,      \* chunks appended to a scrollback so far (emission order)
    chunkLoop,    \* emitted chunk -> read loop that emitted it
    seenBefore,   \* per connection: the chunks whose fan-out had ended when
                  \* its subscription was inserted (history variable)
    subAt,        \* per connection: the chunks emitted when its subscription
                  \* was inserted (history variable)
    msgLog,       \* client messages and API calls handled so far (history
                  \* variable)
    thr,          \* the threads of the lock-level model: what each still has to
                  \* do and the locks it holds; the pending `go onStatus` calls
    budget        \* environment events still to come; out: the bytes the
                  \* child will still write

sessV == <<exists, sessStatus, mainPane, nPanes, paneLayout, paneKeys>>
paneV == <<panes, nKids, kids>>
loopV == <<rd, mon, statusCalls>>
connV == <<conns, subs, hpc, hloc, recv, hmuReaders>>
diskV == <<saveTimer, files, mgr>>
histV == <<nChunks, chunkLoop, seenBefore, subAt, msgLog>>

vars == <<sessV, paneV, loopV, connV, diskV, histV, thr, budget>>

Statuses == {"idle", "shell", "thinking", "executing", "waiting_input",
             "error", "stopped"}

\* ---- helpers -------------------------------------------------------------
Repeat(x, n) == [i \in 1..n |-> x]

Range(q) == {q[i] : i \in 1..Len(q)}

\* no thread of the lock-level model has been started
NoThreads == [run |-> <<>>, cbs |-> 0]

\* what the last Pane.Write or Pane.Resize on a pane did: the call, its
\* result, whether p.pty was set, whether it assigned tracker.lastInputTime
NoIO == [op |-> "none", res |-> "none", hadPty |-> FALSE, stamped |-> FALSE]

\* newStateTracker, with the clock readings kept as whole ticks of the monitor's
\* ticker: quiet = now - lastOutputTime, held = now - stateChangedAt, typed =
\* now - lastInputTime, each stopping at the first value past the thresholds it
\* is compared with; inputLater is lastInputTime.After(lastOutputTime);
\* confidence is in hundredths
NewTracker == [lines |-> <<>>, confidence |-> 100, quiet |-> 0, held |-> 0,
               typed |-> InputWindow + 1, inputLater |-> FALSE]

\* no chunk classified yet
NoVerdict == [old |-> "none", st |-> "none", conf |-> 0,
              ctx |-> <<"none", 0>>, io |-> <<"none", 0>>]

\* NewPane; emitted is the history of all bytes appended to the scrollback,
\* base the status the last output chunk (or the start) left and moves the
\* status changes made since then, lastIO the last Write or Resize
NewPane == [status |-> "idle", cmd |-> 0, pty |-> 0, done |-> FALSE,
            closes |-> 0, starts |-> 0, scrollback |-> <<>>,
            claudeActive |-> FALSE, tracker |-> NewTracker, emitted |-> <<>>,
            base |-> "idle", moves |-> <<>>, lastIO |-> NoIO,
            analyzed |-> NoVerdict]

\* the terminal sizes a message carries: rows and columns; handleStart and
\* handleRestart take 24 x 80 when the message carries none
DefaultSize == <<24, 80>>
NoSize == <<0, 0>>
MsgSizes == {NoSize, <<30, 100>>, <<40, 120>>}

\* handleStart, lines 253-260, and handleRestart, lines 398-405: rows and cols
\* of the message when both are positive, 24 x 80 otherwise
WindowSize(data) == IF data[1] > 0 /\ data[2] > 0 THEN data ELSE DefaultSize

\* a child and its PTY: cmd is "shell" for `$SHELL -l` and "resume" for
\* `claude --resume <id>`; size is the Winsize its PTY was opened with
NoKid == [alive |-> FALSE, ptyOpen |-> FALSE, cmd |-> "none", size |-> <<0, 0>>]
SpawnedKid(cmd, size) == [alive |-> TRUE, ptyOpen |-> TRUE, cmd |-> cmd, size |-> size]

\* conn.WriteMessage returns: the peer reads, or the socket buffer has room
Accepts(d) == d \notin budget.slow

\* claude.FindActiveSession: no entry (or an error), or the newest entry of the
\* directory's index: its session id, whether its Modified parses as RFC 3339
\* and its age in hours
NoEntry == [id |-> "", parses |-> FALSE, age |-> 0]
OracleEntries ==
    {NoEntry} \cup [id : {"cs-1", "cs-2"}, parses : BOOLEAN,
                    age : {ResumeWindow - 1, ResumeWindow}]

\* handleStart / handleRestart: resume without looking at the entry's age
ResumeAnyAge(saved, entry) ==
    saved # "" /\ entry # NoEntry /\ entry.id = saved /\ entry.parses

\* handleStart, lines 271-279: the saved id is set, FindActiveSession gives an
\* entry with that id, its Modified parses and is less than 24 h ago
ResumeChosen(saved, entry) ==
    /\ saved # ""
    /\ entry # NoEntry /\ entry.id = saved
    /\ entry.parses /\ entry.age < ResumeWindow

\* a read loop that is not running; buf is what the last Read returned,
\* pending the carry of an incomplete UTF-8 sequence, data the chunk in hand,
\* at the connection whose WriteMessage the fan-out is in, got all bytes its
\* Reads have returned (history)
NoLoop == [pc |-> "none", pane |-> 0, pty |-> 0, buf |-> <<>>, pending |-> <<>>,
           data |-> <<>>, chunk |-> 0, st |-> "idle", todo |-> {}, at |-> 0,
           got |-> <<>>]

NoMon == [pc |-> "none", pane |-> 0, ns |-> "idle", old |-> "idle"]

\* data: rows and cols of the message; size: the locals rows, cols; resume and
\* oracle: the resume decision of handleStart / handleRestart and the answer
\* of FindActiveSession it was taken on
NoLocals == [msg |-> "none", pane |-> 0, snap |-> <<>>, todo |-> {},
             mark |-> 0, fresh |-> FALSE, data |-> NoSize, size |-> DefaultSize,
             resume |-> "undecided", oracle |-> NoEntry]

\* OutputMessage; src and chunk tell a snapshot from a live chunk
OutputFrame(data, src, chunk) ==
    [kind |-> "output", data |-> data, status |-> "", src |-> src, chunk |-> chunk]

\* StatusMessage
StatusFrame(st) ==
    [kind |-> "status", data |-> <<>>, status |-> st, src |-> "", chunk |-> 0]

\* the read loop emitting all it has, without the trim to a UTF-8 boundary
NoTrim(data) == Len(data)

\* the scan of findLastValidUTF8 comparing i <= expectedLen: a sequence that
\* is complete is held back too
RECURSIVE ScanTailInclusive(_, _)
ScanTailInclusive(data, i) ==
    LET n == Len(data)
    IN IF i > 3 \/ i > n THEN n
       ELSE LET b == data[n - i + 1]
                expectedLen == IF b >= 192 /\ b < 224 THEN 2
                               ELSE IF b >= 224 /\ b < 240 THEN 3
                               ELSE IF b >= 240 /\ b < 248 THEN 4
                               ELSE 0
            IN IF b < 128 THEN n
               ELSE IF b >= 192 THEN (IF i <= expectedLen THEN n - i ELSE n)
               ELSE ScanTailInclusive(data, i + 1)

\* findLastValidUTF8: the length of the longest prefix of data that does not
\* end inside a multi-byte sequence, judged from the last three bytes.
\* b&0x80 == 0 is b < 128, b&0xC0 == 0xC0 is b >= 192, b&0xE0 == 0xC0 is
\* 192 <= b < 224, b&0xF0 == 0xE0 is 224 <= b < 240, b&0xF8 == 0xF0 is
\* 240 <= b < 248.
RECURSIVE ScanTail(_, _)
ScanTail(data, i) ==
    LET n == Len(data)
    IN IF i > 3 \/ i > n THEN n
       ELSE LET b == data[n - i + 1]
                expectedLen == IF b >= 192 /\ b < 224 THEN 2
                               ELSE IF b >= 224 /\ b < 240 THEN 3
                               ELSE IF b >= 240 /\ b < 248 THEN 4
                               ELSE 0
            IN IF b < 128 THEN n
               ELSE IF b >= 192 THEN (IF i < expectedLen THEN n - i ELSE n)
               ELSE ScanTail(data, i + 1)

findLastValidUTF8(data) == IF Len(data) = 0 THEN 0 ELSE ScanTail(data, 1)

\* the append of readOutput keeping the first bytes instead of the last
AppendKeepHead(sb, data) == SubSeq(sb \o data, 1, IF Len(sb \o data) > ScrollbackCap THEN ScrollbackCap ELSE Len(sb \o data))

\* the append of readOutput without the truncation to the cap
AppendUncapped(sb, data) == sb \o data

\* readOutput, lines 326-329: append, then keep the last ScrollbackCap bytes
AppendScrollback(sb, data) ==
    LET all == sb \o data
    IN IF Len(all) > ScrollbackCap
       THEN SubSeq(all, Len(all) - ScrollbackCap + 1, Len(all))
       ELSE all

\* Session.GetMainPane: the pane the layout root names, 0 for nil
GetMainPane == mainPane

\* Session.GetScrollback / Pane.GetScrollback: a copy of the main pane's buffer
GetScrollback == IF GetMainPane = 0 THEN <<>> ELSE panes[GetMainPane].scrollback

\* close(done) without the select that guards it
CloseDoneUnguarded(p) == [p EXCEPT !.done = TRUE, !.closes = @ + 1]

\* the select in Pane.Stop: close(done) only if it is not closed yet
CloseDone(p) ==
    IF p.done THEN p ELSE [p EXCEPT !.done = TRUE, !.closes = @ + 1]

\* Pane.Stop, on the Pane fields p: status stopped, done closed
StoppedPane(p) == CloseDone([p EXCEPT !.status = "stopped"])

\* Pane.Stop: p.cmd.Process.Kill() and p.pty.Close()
KidsAfterStop(p, ks) ==
    [k \in Kids |->
        [ks[k] EXCEPT !.alive = IF p.cmd = k THEN FALSE ELSE @,
                      !.ptyOpen = IF p.pty = k THEN FALSE ELSE @]]

\* the values of Session.panes: the panes created since the map was last
\* emptied, the first of them under the key "main"
SessionPanes == IF mainPane = 0 THEN {} ELSE mainPane..nPanes

\* UpdateSessionStatus with a priority map that does not tell the running
\* statuses apart
prioritiesCoarse(st) ==
    CASE st = "idle" -> 0
      [] st = "stopped" -> 1
      [] st = "shell" -> 2
      [] st \in {"waiting_input", "executing", "thinking"} -> 3
      [] st = "error" -> 6
      [] OTHER -> 0

\* the priorities map of UpdateSessionStatus
priorities(st) ==
    CASE st = "idle" -> 0
      [] st = "stopped" -> 1
      [] st = "shell" -> 2
      [] st = "waiting_input" -> 3
      [] st = "executing" -> 4
      [] st = "thinking" -> 5
      [] st = "error" -> 6
      [] OTHER -> 0

\* the loop of UpdateSessionStatus over the panes in the order the range
\* yields them
RECURSIVE HighestPriority(_, _)
HighestPriority(order, highest) ==
    IF order = <<>> THEN highest
    ELSE HighestPriority(Tail(order),
             IF priorities(panes[Head(order)].status) > priorities(highest)
             THEN panes[Head(order)].status ELSE highest)

\* the orders in which a range over the map can yield its panes
RangeOrders(S) ==
    {q \in UNION {[1..n -> S] : n \in {Cardinality(S)}} :
        \A i, j \in 1..Len(q) : i # j => q[i] # q[j]}

\* Session.Stop / Session.Reset: Pane.Stop on every pane of the map
PanesAfterStop ==
    IF mainPane = 0 THEN panes
    ELSE [panes EXCEPT ![mainPane] = StoppedPane(@)]

KidsAfterSessionStop ==
    IF mainPane = 0 THEN kids ELSE KidsAfterStop(panes[mainPane], kids)

\* scheduleScrollbackSave: the timer of h.saveTimers is stopped and the entry is
\* replaced by a new timer of 5 s
ArmSaveTimer(timers) == <<SaveDelay>>

\* Manager.SaveScrollback: writes <id>.scrollback unless the buffer is empty
SaveScrollback(f) ==
    IF Len(GetScrollback) = 0 THEN f
    ELSE [f EXCEPT !.sb = TRUE, !.sbData = GetScrollback]

\* the server process has not called os.Exit
Running == ~mgr.exited

\* the handler goroutine of c is not inside handleSubscribe
SubscribeReturned(c) == hpc[c] \notin {"sub_snap", "sub_send"}

\* broadcastOutput ranging over the connections whose handleSubscribe has
\* returned: a subscription that takes effect only after the snapshot is sent
SubscribersAfterSnapshot == {c \in conns : subs[c] /\ SubscribeReturned(c)}

\* a broadcast that ranges over h.connections without looking at the
\* subscription sets
EveryConnection == conns

\* the connections whose subscription set contains the session
Subscribers == {c \in conns : subs[c]}

\* conn.WriteMessage putting the frame ahead of what is already queued
WriteMessageAhead(q, frame) == <<frame>> \o q

\* conn.WriteMessage: the frame goes out on the connection's transport
WriteMessage(q, frame) == Append(q, frame)

\* chunks whose broadcastOutput has returned
FannedOut ==
    {x \in 1..nChunks :
        ~\E k \in Kids : rd[k].chunk = x /\ rd[k].pc \in {"detect", "bo", "bo_send"}}

\* ---- persisted metadata ----------------------------------------------------
\* Values a request or the agent-session oracle can supply
SessionNames == {"work", "play"}
RobotModels == {"", "classic"}
ClaudeSessionIDs == {"", "cs-1"}

\* The exported fields of Session other than Status (kept in sessStatus) and the
\* timestamps; the zero value of a string is "", of a pointer "nil", and an
\* empty map and a nil map are both "{}"
NewSession(id, name, directory) ==
    [ID |-> id, Name |-> name, Color |-> "#6366f1", Position |-> "nil",
     Metadata |-> "{}", Directory |-> directory, ParentID |-> "",
     WorktreePath |-> "", Branch |-> "", RobotModel |-> "", RobotColor |-> "",
     RobotAccessory |-> "", HexQ |-> "nil", HexR |-> "nil",
     LastClaudeSessionID |-> ""]

\* No session loaded / no metadata file
NoSession == [ID |-> ""]
NoInfo == [ID |-> ""]

\* saveSession: the SessionInfo written to <id>.json; SessionInfo has no field
\* for the last Claude session id nor for the pane layout
saveSession(s, status) ==
    [ID |-> s.ID, Name |-> s.Name, Status |-> status, Color |-> s.Color,
     Position |-> s.Position, Metadata |-> s.Metadata, Directory |-> s.Directory,
     ParentID |-> s.ParentID, WorktreePath |-> s.WorktreePath, Branch |-> s.Branch,
     RobotModel |-> s.RobotModel, RobotColor |-> s.RobotColor,
     RobotAccessory |-> s.RobotAccessory, HexQ |-> s.HexQ, HexR |-> s.HexR]

\* loadSessions, for one file: the Session built from a SessionInfo; Status is
\* reset to idle and every field SessionInfo lacks keeps its zero value
loadSessions(info) ==
    [ID |-> info.ID, Name |-> info.Name, Status |-> "idle", Color |-> info.Color,
     Position |-> info.Position, Metadata |-> info.Metadata,
     Directory |-> info.Directory, ParentID |-> info.ParentID,
     WorktreePath |-> info.WorktreePath, Branch |-> info.Branch,
     RobotModel |-> info.RobotModel, RobotColor |-> info.RobotColor,
     RobotAccessory |-> info.RobotAccessory, HexQ |-> info.HexQ, HexR |-> info.HexR,
     LastClaudeSessionID |-> ""]

\* Manager.Create / CreateExperiment: the registered session and its first save
CreatedSession(name, parent) ==
    [NewSession("s1", name, IF parent = "" THEN "/src" ELSE "/wt") EXCEPT
        !.ParentID = parent,
        !.WorktreePath = IF parent = "" THEN "" ELSE "/wt",
        !.Branch = IF parent = "" THEN "" ELSE "exp"]

NewManager(s) == [del |-> "idle", exited |-> FALSE, sess |-> s,
                  saved |-> [s |-> s, status |-> "idle"], loaded |-> NoSession]
NewFiles(s) == [json |-> TRUE, sb |-> FALSE, sbData |-> <<>>,
                info |-> saveSession(s, "idle")]

\* ---- the pane layout ---------------------------------------------------------
\* Pane ids; "" is the PaneID of a node that is not a leaf
PaneIDs == {"main", "p1", "p2", "p3"}
\* the keys under which the panes of a session are registered, in the order of
\* their creation
PaneKey(g) == <<"main", "p1", "p2", "p3">>[g]
Directions == {"horizontal", "vertical"}

NilLayout == [nil |-> TRUE]

\* PaneLayout values: a leaf names a pane, a split has children
LayoutLeaf(id, paneID, size) ==
    [ID |-> id, Direction |-> "", Size |-> size, Children |-> <<>>, PaneID |-> paneID]
LayoutSplit(id, direction, children) ==
    [ID |-> id, Direction |-> direction, Size |-> 0, Children |-> children,
     PaneID |-> ""]

\* CreatePane on a session without layout
RootLayout(paneID) == LayoutLeaf("root", paneID, 100)

\* the pane ids of the leaves, left to right
RECURSIVE LayoutLeaves(_)
LayoutLeaves(node) ==
    IF node.Children = <<>> THEN <<node.PaneID>>
    ELSE LET RECURSIVE Cat(_)
             Cat(i) == IF i > Len(node.Children) THEN <<>>
                       ELSE LayoutLeaves(node.Children[i]) \o Cat(i + 1)
         IN Cat(1)

\* splitPaneInLayoutNode: the node that names paneID becomes a split of paneID
\* and newPaneID, half each, under the node's ID; other nodes keep their fields
\* and have their children rewritten
RECURSIVE splitPaneInLayoutNode(_, _, _, _)
splitPaneInLayoutNode(node, paneID, newPaneID, direction) ==
    IF node.PaneID = paneID
    THEN LayoutSplit(node.ID, direction,
                     <<LayoutLeaf("", paneID, 50), LayoutLeaf("", newPaneID, 50)>>)
    ELSE [node EXCEPT !.Children =
            [i \in 1..Len(node.Children) |->
                splitPaneInLayoutNode(node.Children[i], paneID, newPaneID, direction)]]

splitPaneInLayout(layout, paneID, newPaneID, direction) ==
    IF layout = NilLayout THEN layout
    ELSE splitPaneInLayoutNode(layout, paneID, newPaneID, direction)

\* removePaneFromLayoutNode that keeps a split with one child left
RECURSIVE removeKeepingSplit(_, _)
removeKeepingSplit(node, paneID) ==
    LET RECURSIVE Kept(_)
        Kept(i) ==
            IF i > Len(node.Children) THEN <<>>
            ELSE IF node.Children[i].PaneID = paneID THEN Kept(i + 1)
            ELSE <<removeKeepingSplit(node.Children[i], paneID)>> \o Kept(i + 1)
    IN [node EXCEPT !.Children = Kept(1)]

\* removePaneFromLayoutNode: the children that name paneID are dropped and the
\* others rewritten; a node left with one child is replaced by that child
RECURSIVE removePaneFromLayoutNode(_, _)
removePaneFromLayoutNode(node, paneID) ==
    LET RECURSIVE newChildren(_)
        newChildren(i) ==
            IF i > Len(node.Children) THEN <<>>
            ELSE IF node.Children[i].PaneID = paneID THEN newChildren(i + 1)
            ELSE <<removePaneFromLayoutNode(node.Children[i], paneID)>>
                     \o newChildren(i + 1)
    IN IF Len(newChildren(1)) = 1 THEN newChildren(1)[1]
       ELSE [node EXCEPT !.Children = newChildren(1)]

removePaneFromLayout(layout, paneID) ==
    IF layout = NilLayout THEN layout
    ELSE IF layout.PaneID = paneID THEN NilLayout
    ELSE removePaneFromLayoutNode(layout, paneID)

\* ---- initial states --------------------------------------------------------
\* Pane.Start succeeded on the Pane fields p with child and PTY k: status shell.
\* The tracker's lastOutputTime and stateChangedAt are set to now; its lines and
\* claudeActive stay.  Nothing in Start looks at the pane's previous cmd, pty, done or loops.
StartedPane(p, k) ==
    [p EXCEPT !.cmd = k, !.pty = k, !.status = "shell", !.starts = @ + 1,
              !.tracker = [@ EXCEPT !.quiet = 0, !.held = 0],
              !.base = "shell", !.moves = <<>>]

\* Pane.Resume, lines 196-204, on child k
ResumedPane(p, k) ==
    [p EXCEPT !.cmd = k, !.pty = k, !.status = "waiting_input", !.starts = @ + 1,
              !.tracker = [@ EXCEPT !.quiet = 0, !.held = 0], !.claudeActive = TRUE,
              !.base = "waiting_input", !.moves = <<>>]

\* the goroutines Pane.Start launches
StartedLoop(g) == [NoLoop EXCEPT !.pc = "select", !.pane = g]

StartedMon(g) == [NoMon EXCEPT !.pc = "run", !.pane = g]

\* open: the connections accepted by HandleConnection; subd: those of them that
\* sent "start" (handleStart subscribes its connection); started: the session
\* has been started once and its shell is running; b: the environment events
\* still to come; created: the session Manager.Create registered and saved;
\* threads: the threads of the lock-level model
InitThreads(open, subd, started, b, created, threads) ==
    /\ exists = TRUE
    /\ sessStatus = IF started THEN "shell" ELSE "idle"
    /\ mainPane = IF started THEN 1 ELSE 0
    /\ nPanes = IF started THEN 1 ELSE 0
    /\ paneLayout = IF started THEN RootLayout("main") ELSE NilLayout
    /\ paneKeys = IF started THEN {"main"} ELSE {}
    /\ panes = [g \in Panes |->
                  IF started /\ g = 1 THEN StartedPane(NewPane, 1) ELSE NewPane]
    /\ nKids = IF started THEN 1 ELSE 0
    /\ kids = [k \in Kids |->
                 IF started /\ k = 1 THEN SpawnedKid("shell", DefaultSize)
                 ELSE NoKid]
    /\ rd = [k \in Kids |-> IF started /\ k = 1 THEN StartedLoop(1) ELSE NoLoop]
    /\ mon = [k \in Kids |-> IF started /\ k = 1 THEN StartedMon(1) ELSE NoMon]
    /\ statusCalls = [st \in Statuses |-> 0]
    /\ conns = open
    /\ subs = [c \in Conns |-> c \in subd]
    /\ hpc = [c \in Conns |-> "idle"]
    /\ hloc = [c \in Conns |-> NoLocals]
    /\ recv = [c \in Conns |-> <<>>]
    /\ hmuReaders = 0
    /\ saveTimer = <<>>
    /\ files = NewFiles(created)
    /\ mgr = NewManager(created)
    /\ nChunks = 0
    /\ chunkLoop = <<>>
    /\ seenBefore = [c \in Conns |-> {}]
    /\ subAt = [c \in Conns |-> 0]
    /\ msgLog = IF started THEN <<"start">> ELSE <<>>
    /\ thr = threads
    /\ budget = b

InitSession(open, subd, started, b, created) ==
    InitThreads(open, subd, started, b, created, NoThreads)

InitWith(open, subd, started, b) ==
    InitSession(open, subd, started, b, CreatedSession("work", ""))

\* ---- Handler: client messages ----------------------------------------------
\* handleSubscribe, lines 150-155: the subscription is inserted under h.mu.Lock
InsertSubscription(c) ==
    /\ hmuReaders = 0
    /\ subs' = [subs EXCEPT ![c] = TRUE]
    /\ seenBefore' = [seenBefore EXCEPT ![c] = IF subs[c] THEN @ ELSE FannedOut]
    /\ subAt' = [subAt EXCEPT ![c] = IF subs[c] THEN @ ELSE nChunks]

\* where a handler goroutine goes when handleSubscribe returns
AfterSubscribe(c) == IF hloc[c].msg = "start" THEN "st_get" ELSE "idle"

\* the locals of handleSubscribe die when it returns
LocalsAfterSubscribe(c) ==
    IF hloc[c].msg = "start"
    THEN [NoLocals EXCEPT !.msg = "start", !.data = hloc[c].data,
                          !.size = hloc[c].size]
    ELSE NoLocals

\* "subscribe" message: Handler.handleSubscribe, first critical section
handleSubscribe(c) ==
    /\ Running /\ c \in conns /\ hpc[c] = "idle" /\ budget.msgs > 0
    /\ InsertSubscription(c)
    /\ hpc' = [hpc EXCEPT ![c] = "sub_snap"]
    /\ hloc' = [hloc EXCEPT ![c] = [NoLocals EXCEPT !.msg = "subscribe",
                    !.mark = Len(recv[c]), !.fresh = ~subs[c]]]
    /\ msgLog' = Append(msgLog, "subscribe")
    /\ budget' = [budget EXCEPT !.msgs = @ - 1]
    /\ UNCHANGED <<thr, sessV, paneV, loopV, conns, recv, hmuReaders, diskV, nChunks,
                   chunkLoop>>

\* handleSubscribe, lines 162-169: manager.Get, UpdateCwd, sess.GetScrollback()
SubscribeSnapshot(c) ==
    /\ Running /\ hpc[c] = "sub_snap"
    /\ IF exists /\ Len(GetScrollback) > 0
       THEN /\ hpc' = [hpc EXCEPT ![c] = "sub_send"]
            /\ hloc' = [hloc EXCEPT ![c].snap = GetScrollback]
       ELSE /\ hpc' = [hpc EXCEPT ![c] = AfterSubscribe(c)]
            /\ hloc' = [hloc EXCEPT ![c] = LocalsAfterSubscribe(c)]
    /\ UNCHANGED <<thr, sessV, paneV, loopV, conns, subs, recv, hmuReaders, diskV,
                   histV, budget>>

\* handleSubscribe, lines 170-181: the snapshot frame, under the connection's
\* writeMu
SubscribeSend(c) ==
    /\ Running /\ hpc[c] = "sub_send" /\ Accepts(c)
    /\ recv' = [recv EXCEPT ![c] = WriteMessage(@, OutputFrame(hloc[c].snap, "snap", 0))]
    /\ hpc' = [hpc EXCEPT ![c] = AfterSubscribe(c)]
    /\ hloc' = [hloc EXCEPT ![c] = LocalsAfterSubscribe(c)]
    /\ UNCHANGED <<thr, sessV, paneV, loopV, conns, subs, hmuReaders, diskV, histV,
                   budget>>

\* "start" message: Handler.handleStart up to and including the first critical
\* section of its handleSubscribe call (a message for a session that
\* manager.Get does not find is dropped)
StartMessage(c, data) ==
    /\ Running /\ c \in conns /\ hpc[c] = "idle" /\ budget.msgs > 0 /\ exists
    /\ InsertSubscription(c)
    /\ hpc' = [hpc EXCEPT ![c] = "sub_snap"]
    /\ hloc' = [hloc EXCEPT ![c] = [NoLocals EXCEPT !.msg = "start",
                    !.mark = Len(recv[c]), !.fresh = ~subs[c],
                    !.data = data, !.size = WindowSize(data)]]
    /\ msgLog' = Append(msgLog, "start")
    /\ budget' = [budget EXCEPT !.msgs = @ - 1]
    /\ UNCHANGED <<thr, sessV, paneV, loopV, conns, recv, hmuReaders, diskV, nChunks,
                   chunkLoop>>

\* a "start" message without rows and cols
handleStart(c) == StartMessage(c, NoSize)

\* handleStart, lines 270-289, and handleRestart, lines 410-427: the resume
\* decision; after a failed Resume the handler falls back to sess.Start
Decision(c, entry) ==
    IF hloc[c].resume # "undecided" THEN hloc[c].resume
    ELSE IF ResumeChosen(mgr.sess.LastClaudeSessionID, entry) THEN "yes" ELSE "no"

\* handleStart decides between Session.Resume and Session.Start on the answer
\* of claude.FindActiveSession; then Session.Resume, line 1759, or
\* Session.Start, line 1731: pane := s.GetMainPane()
SessionStartGetPane(c) ==
    /\ Running /\ hpc[c] = "st_get"
    /\ hpc' = [hpc EXCEPT ![c] = IF GetMainPane = 0 THEN "st_create" ELSE "st_pstart"]
    /\ \E entry \in IF mgr.sess.LastClaudeSessionID = "" \/ hloc[c].resume # "undecided"
                     THEN {hloc[c].oracle} ELSE OracleEntries :
          hloc' = [hloc EXCEPT ![c].pane = GetMainPane,
                               ![c].oracle = entry,
                               ![c].resume = Decision(c, entry)]
    /\ UNCHANGED <<thr, sessV, paneV, loopV, conns, subs, recv, hmuReaders, diskV,
                   histV, budget>>

\* Session.CreatePane("main"): a new Pane object becomes panes["main"], and the
\* layout root names "main"
CreatePane(c) ==
    /\ Running /\ hpc[c] = "st_create" /\ nPanes < MaxPanes
    /\ nPanes' = nPanes + 1
    /\ panes' = [panes EXCEPT ![nPanes + 1] = NewPane]
    /\ mainPane' = nPanes + 1
    /\ paneLayout' = IF paneLayout = NilLayout THEN RootLayout("main") ELSE paneLayout
    /\ paneKeys' = paneKeys \cup {"main"}
    /\ hpc' = [hpc EXCEPT ![c] = "st_pstart"]
    /\ hloc' = [hloc EXCEPT ![c].pane = nPanes + 1]
    /\ UNCHANGED <<thr, exists, sessStatus, nKids, kids, loopV, conns, subs, recv,
                   hmuReaders, diskV, histV, budget>>

\* Pane.Start succeeds: a child on a new PTY, both loops launched; Pane.Resume
\* succeeds: the same with `claude --resume`, status waiting_input and
\* claudeActive set
PaneStart(c) ==
    /\ Running /\ hpc[c] = "st_pstart" /\ nKids < MaxStarts
    /\ LET g == hloc[c].pane
           k == nKids + 1
       IN /\ nKids' = k
          /\ kids' = [kids EXCEPT ![k] =
                        SpawnedKid(IF hloc[c].resume = "yes" THEN "resume" ELSE "shell",
                                   hloc[c].size)]
          /\ panes' = [panes EXCEPT ![g] = IF hloc[c].resume = "yes"
                                           THEN ResumedPane(@, k)
                                           ELSE StartedPane(@, k)]
          /\ rd' = [rd EXCEPT ![k] = StartedLoop(g)]
          /\ mon' = [mon EXCEPT ![k] = StartedMon(g)]
    /\ hpc' = [hpc EXCEPT ![c] = "st_status"]
    /\ UNCHANGED <<thr, sessV, statusCalls, conns, subs, hloc, recv, hmuReaders,
                   diskV, histV, budget>>

\* Pane.Start fails (pty.StartWithSize error): p.cmd is already the new command,
\* which has no process; status error; no loop is launched; handleStart logs.
\* Pane.Resume fails the same way, and the handler goes on to sess.Start
PaneStartFails(c) ==
    /\ Running /\ hpc[c] = "st_pstart"
    /\ panes' = [panes EXCEPT ![hloc[c].pane].cmd = 0,
                              ![hloc[c].pane].status = "error"]
    /\ IF hloc[c].resume = "yes"
       THEN /\ hpc' = [hpc EXCEPT ![c] = "st_get"]
            /\ hloc' = [hloc EXCEPT ![c].resume = "failed"]
       ELSE /\ hpc' = [hpc EXCEPT ![c] = "idle"]
            /\ hloc' = [hloc EXCEPT ![c] = NoLocals]
    /\ UNCHANGED <<thr, sessV, nKids, kids, loopV, conns, subs, recv, hmuReaders,
                   diskV, histV, budget>>

\* Session.Start, lines 1748-1753: s.Status = StatusShell; Session.Resume,
\* lines 1779-1785: s.Status = StatusWaitingInput
SessionStartStatus(c) ==
    /\ Running /\ hpc[c] = "st_status"
    /\ sessStatus' = IF hloc[c].resume = "yes" THEN "waiting_input" ELSE "shell"
    /\ hpc' = [hpc EXCEPT ![c] = "idle"]
    /\ hloc' = [hloc EXCEPT ![c] = NoLocals]
    /\ UNCHANGED <<thr, exists, mainPane, nPanes, paneLayout, paneKeys, paneV, loopV, conns, subs, recv,
                   hmuReaders, diskV, histV, budget>>

\* "stop" message: Handler.handleStop, lines 366-375: UpdateCwd, SaveScrollback
handleStop(c) ==
    /\ Running /\ c \in conns /\ hpc[c] = "idle" /\ budget.msgs > 0 /\ exists
    /\ files' = SaveScrollback(files)
    /\ hpc' = [hpc EXCEPT ![c] = "stop_stop"]
    /\ hloc' = [hloc EXCEPT ![c] = [NoLocals EXCEPT !.msg = "stop"]]
    /\ msgLog' = Append(msgLog, "stop")
    /\ budget' = [budget EXCEPT !.msgs = @ - 1]
    /\ UNCHANGED <<thr, sessV, paneV, loopV, conns, subs, recv, hmuReaders, saveTimer,
                   mgr, nChunks, chunkLoop, seenBefore, subAt>>

\* handleStop, line 377: sess.Stop()
SessionStop(c) ==
    /\ Running /\ hpc[c] = "stop_stop"
    /\ panes' = PanesAfterStop
    /\ kids' = KidsAfterSessionStop
    /\ sessStatus' = "stopped"
    /\ hpc' = [hpc EXCEPT ![c] = "stop_bc"]
    /\ UNCHANGED <<thr, exists, mainPane, nPanes, paneLayout, paneKeys, nKids, loopV, conns, subs, hloc,
                   recv, hmuReaders, diskV, histV, budget>>

\* handleStop, line 378: broadcastStatus(stopped) takes h.mu.RLock
StopBroadcastBegin(c) ==
    /\ Running /\ hpc[c] = "stop_bc"
    /\ IF Subscribers = {}
       THEN /\ hpc' = [hpc EXCEPT ![c] = "idle"]
            /\ hloc' = [hloc EXCEPT ![c] = NoLocals]
            /\ UNCHANGED hmuReaders
       ELSE /\ hpc' = [hpc EXCEPT ![c] = "stop_send"]
            /\ hloc' = [hloc EXCEPT ![c].todo = Subscribers]
            /\ hmuReaders' = hmuReaders + 1
    /\ UNCHANGED <<thr, sessV, paneV, loopV, conns, subs, recv, diskV, histV, budget>>

\* broadcastStatus: one send, under that connection's writeMu; the read lock is
\* released after the last one
StopBroadcastSend(c) ==
    /\ Running /\ hpc[c] = "stop_send"
    /\ \E d \in hloc[c].todo :
        /\ Accepts(d)
        /\ recv' = [recv EXCEPT ![d] = WriteMessage(@, StatusFrame("stopped"))]
        /\ IF hloc[c].todo = {d}
           THEN /\ hpc' = [hpc EXCEPT ![c] = "idle"]
                /\ hloc' = [hloc EXCEPT ![c] = NoLocals]
                /\ hmuReaders' = hmuReaders - 1
           ELSE /\ hloc' = [hloc EXCEPT ![c].todo = @ \ {d}]
                /\ UNCHANGED <<hpc, hmuReaders>>
    /\ UNCHANGED <<thr, sessV, paneV, loopV, conns, subs, diskV, histV, budget>>

\* "restart" message: Handler.handleRestart up to sess.Reset(): every pane of
\* the map is stopped, the map and the layout are dropped, status idle
RestartMessage(c, data) ==
    /\ Running /\ c \in conns /\ hpc[c] = "idle" /\ budget.msgs > 0 /\ exists
    /\ panes' = PanesAfterStop
    /\ kids' = KidsAfterSessionStop
    /\ mainPane' = 0
    /\ paneLayout' = NilLayout
    /\ paneKeys' = {}
    /\ sessStatus' = "idle"
    /\ hpc' = [hpc EXCEPT ![c] = "st_get"]
    /\ hloc' = [hloc EXCEPT ![c] = [NoLocals EXCEPT !.msg = "restart",
                    !.data = data, !.size = WindowSize(data)]]
    /\ msgLog' = Append(msgLog, "restart")
    /\ budget' = [budget EXCEPT !.msgs = @ - 1]
    /\ UNCHANGED <<thr, exists, nPanes, nKids, loopV, conns, subs, recv, hmuReaders,
                   diskV, nChunks, chunkLoop, seenBefore, subAt>>

\* a "restart" message without rows and cols
handleRestart(c) == RestartMessage(c, NoSize)

\* "unsubscribe" message: Handler.handleUnsubscribe, under h.mu.Lock
handleUnsubscribe(c) ==
    /\ Running /\ c \in conns /\ hpc[c] = "idle" /\ budget.msgs > 0
    /\ hmuReaders = 0
    /\ subs' = [subs EXCEPT ![c] = FALSE]
    /\ msgLog' = Append(msgLog, "unsubscribe")
    /\ budget' = [budget EXCEPT !.msgs = @ - 1]
    /\ UNCHANGED <<thr, sessV, paneV, loopV, conns, hpc, hloc, recv, hmuReaders, diskV,
                   nChunks, chunkLoop, seenBefore, subAt>>

\* HandleConnection: ReadMessage fails, the loop is left and the deferred
\* function deletes the connection, with its subscriptions, under h.mu.Lock
ConnectionClosed(c) ==
    /\ Running /\ c \in conns /\ hpc[c] = "idle" /\ budget.msgs > 0
    /\ hmuReaders = 0
    /\ conns' = conns \ {c}
    /\ subs' = [subs EXCEPT ![c] = FALSE]
    /\ msgLog' = Append(msgLog, "close")
    /\ budget' = [budget EXCEPT !.msgs = @ - 1]
    /\ UNCHANGED <<thr, sessV, paneV, loopV, hpc, hloc, recv, hmuReaders, diskV,
                   nChunks, chunkLoop, seenBefore, subAt>>

\* ---- Pane.readOutput -------------------------------------------------------
\* top of the loop: the select on done; else p.pty is read (without the lock)
\* and Read is entered
ReadSelect(k) ==
    /\ Running /\ rd[k].pc = "select"
    /\ rd' = [rd EXCEPT ![k] =
                IF panes[rd[k].pane].done
                THEN [NoLoop EXCEPT !.pc = "exit", !.pane = rd[k].pane]
                ELSE [@ EXCEPT !.pc = "read", !.pty = panes[rd[k].pane].pty,
                               !.buf = <<>>]]
    /\ UNCHANGED <<thr, sessV, paneV, mon, statusCalls, connV, diskV, histV, budget>>

\* the read loop without `append(pending, buf[:n]...)`: the carry is dropped
ReadChunkWithoutCarry(k, buf) ==
    LET all == buf
        validLen == findLastValidUTF8(all)
        data == SubSeq(all, 1, validLen)
        carry == SubSeq(all, validLen + 1, Len(all))
        x == nChunks + 1
    IN IF Len(data) > 0
       THEN /\ nChunks' = x
            /\ chunkLoop' = Append(chunkLoop, k)
            /\ panes' = [panes EXCEPT
                           ![rd[k].pane].scrollback = AppendScrollback(@, data),
                           ![rd[k].pane].emitted = @ \o data]
            /\ rd' = [rd EXCEPT ![k].pc = "detect", ![k].buf = buf,
                                 ![k].pending = carry, ![k].data = data,
                                 ![k].chunk = x, ![k].got = @ \o buf]
       ELSE /\ rd' = [rd EXCEPT ![k].pc = "select", ![k].pty = 0, ![k].buf = buf,
                                 ![k].pending = carry, ![k].got = @ \o buf]
            /\ UNCHANGED <<nChunks, chunkLoop, panes>>

\* readOutput, lines 308-330, for a Read that returned the bytes buf: the
\* carry is put in front, the tail is trimmed to the last complete UTF-8
\* sequence and carried over, and what is left, if anything, is appended to
\* the scrollback under p.mu; with nothing left the loop goes round.
ReadChunk(k, buf) ==
    LET all == rd[k].pending \o buf
        validLen == findLastValidUTF8(all)
        data == SubSeq(all, 1, validLen)
        carry == SubSeq(all, validLen + 1, Len(all))
        x == nChunks + 1
    IN IF Len(data) > 0
       THEN /\ nChunks' = x
            /\ chunkLoop' = Append(chunkLoop, k)
            /\ panes' = [panes EXCEPT
                           ![rd[k].pane].scrollback = AppendScrollback(@, data),
                           ![rd[k].pane].emitted = @ \o data]
            /\ rd' = [rd EXCEPT ![k].pc = "detect", ![k].buf = buf,
                                 ![k].pending = carry, ![k].data = data,
                                 ![k].chunk = x, ![k].got = @ \o buf]
       ELSE /\ rd' = [rd EXCEPT ![k].pc = "select", ![k].pty = 0, ![k].buf = buf,
                                 ![k].pending = carry, ![k].got = @ \o buf]
            /\ UNCHANGED <<nChunks, chunkLoop, panes>>

\* p.pty.Read returns n > 0 bytes of the child's output, which are single-byte
\* characters.  The bytes of chunk x are written x, so that a frame tells
\* which chunks it carries.
ReadAppend(k) ==
    /\ Running /\ rd[k].pc = "read" /\ budget.reads > 0
    /\ kids[rd[k].pty].alive /\ kids[rd[k].pty].ptyOpen
    /\ \E n \in 1..MaxChunkLen : ReadChunk(k, Repeat(nChunks + 1, n))
    /\ budget' = [budget EXCEPT !.reads = @ - 1]
    /\ UNCHANGED <<thr, sessV, nKids, kids, mon, statusCalls, connV, diskV,
                   seenBefore, subAt, msgLog>>

\* p.pty.Read returns the next n > 0 bytes of what the child writes, cut at
\* any byte position
ReadStream(k) ==
    /\ Running /\ rd[k].pc = "read" /\ Len(budget.out) > 0
    /\ kids[rd[k].pty].alive /\ kids[rd[k].pty].ptyOpen
    /\ \E n \in 1..MaxReadLen :
        /\ n <= Len(budget.out)
        /\ ReadChunk(k, SubSeq(budget.out, 1, n))
        /\ budget' = [budget EXCEPT !.out = SubSeq(@, n + 1, Len(@))]
    /\ UNCHANGED <<thr, sessV, nKids, kids, mon, statusCalls, connV, diskV,
                   seenBefore, subAt, msgLog>>

\* p.pty.Read returns an error (the PTY was closed or the child is gone);
\* lines 300-302: p.status = StatusStopped under p.mu.  done is left as it is.
ReadError(k) ==
    /\ Running /\ rd[k].pc = "read"
    /\ ~kids[rd[k].pty].alive \/ ~kids[rd[k].pty].ptyOpen
    /\ panes' = [panes EXCEPT ![rd[k].pane].status = "stopped"]
    /\ rd' = [rd EXCEPT ![k].pc = "err_cb"]
    /\ UNCHANGED <<thr, sessV, nKids, kids, mon, statusCalls, connV, diskV, histV,
                   budget>>

\* the onStatus closure of Session.Start: s.Status = status under s.mu; the
\* callback s.onStatusChange is nil (SetStatusChangeCallback has no caller), so
\* nothing else happens
OnStatus(st) == sessStatus' = st

\* readOutput, lines 303-306: p.onStatus(StatusStopped), then return
ReadErrorNotify(k) ==
    /\ Running /\ rd[k].pc = "err_cb"
    /\ OnStatus("stopped")
    /\ rd' = [rd EXCEPT ![k] = [NoLoop EXCEPT !.pc = "exit", !.pane = rd[k].pane]]
    /\ UNCHANGED <<thr, exists, mainPane, nPanes, paneLayout, paneKeys, paneV, mon, statusCalls, connV,
                   diskV, histV, budget>>

\* what detectStatus can decide for pane fields p: "keep" leaves the status
\* (analyzeState agrees with it, or its confidence is below 0.6 on a weak
\* transition); otherwise the status analyzeState returned, and ca: the analysis
\* set tracker.claudeActive.  shell is returned only while claudeActive is
\* unset; thinking and waiting_input need claudeActive.
DetectVerdicts(p) ==
    {v \in [st : {"keep", "shell", "thinking", "executing", "waiting_input"},
            ca : BOOLEAN] :
        /\ v.st # p.status
        /\ v.st = "shell" => ~v.ca /\ ~p.claudeActive
        /\ v.st \in {"thinking", "waiting_input"} => v.ca \/ p.claudeActive}

\* Pane.detectStatus, under p.mu: a changed status is handed to `go onStatus`
ReadDetect(k) ==
    /\ Running /\ rd[k].pc = "detect"
    /\ \E v \in DetectVerdicts(panes[rd[k].pane]) :
        /\ (v.st # "keep" \/ v.ca # panes[rd[k].pane].claudeActive) => budget.changes > 0
        /\ panes' = [panes EXCEPT
                       ![rd[k].pane].status = IF v.st = "keep" THEN @ ELSE v.st,
                       ![rd[k].pane].claudeActive = @ \/ v.ca]
        /\ statusCalls' = IF v.st = "keep" THEN statusCalls
                          ELSE [statusCalls EXCEPT ![v.st] = @ + 1]
        /\ budget' = IF v.st = "keep" /\ (v.ca => panes[rd[k].pane].claudeActive)
                     THEN budget ELSE [budget EXCEPT !.changes = @ - 1]
    /\ rd' = [rd EXCEPT ![k].pc = "bo"]
    /\ UNCHANGED <<thr, sessV, nKids, kids, mon, connV, diskV, histV>>

\* a `go onStatus(newStatus)` goroutine runs
OnStatusRun(st) ==
    /\ Running /\ statusCalls[st] > 0
    /\ OnStatus(st)
    /\ statusCalls' = [statusCalls EXCEPT ![st] = @ - 1]
    /\ UNCHANGED <<thr, exists, mainPane, nPanes, paneLayout, paneKeys, paneV, rd, mon, connV, diskV,
                   histV, budget>>

\* outputCallback: broadcastOutput takes h.mu.RLock and ranges over the
\* connections that subscribe to the session
BroadcastOutputBegin(k) ==
    /\ Running /\ rd[k].pc = "bo"
    /\ IF Subscribers = {}
       THEN /\ rd' = [rd EXCEPT ![k].pc = "gs", ![k].buf = <<>>, ![k].data = <<>>,
                                 ![k].chunk = 0]
            /\ UNCHANGED hmuReaders
       ELSE /\ rd' = [rd EXCEPT ![k].pc = "bo_send", ![k].todo = Subscribers]
            /\ hmuReaders' = hmuReaders + 1
    /\ UNCHANGED <<thr, sessV, paneV, mon, statusCalls, conns, subs, hpc, hloc, recv,
                   diskV, histV, budget>>

\* broadcastOutput: one send, under that connection's writeMu; RUnlock after
\* the last one
BroadcastOutputSend(k) ==
    /\ Running /\ rd[k].pc = "bo_send"
    /\ \E d \in rd[k].todo :
        /\ Accepts(d) /\ rd[k].at \in {0, d}
        /\ recv' = [recv EXCEPT ![d] =
                      WriteMessage(@, OutputFrame(rd[k].data, "live", rd[k].chunk))]
        /\ IF rd[k].todo = {d}
           THEN /\ rd' = [rd EXCEPT ![k].pc = "gs", ![k].todo = {}, ![k].buf = <<>>,
                                    ![k].data = <<>>, ![k].chunk = 0, ![k].at = 0]
                /\ hmuReaders' = hmuReaders - 1
           ELSE /\ rd' = [rd EXCEPT ![k].todo = @ \ {d}, ![k].at = 0]
                /\ UNCHANGED hmuReaders
    /\ UNCHANGED <<thr, sessV, paneV, mon, statusCalls, conns, subs, hpc, hloc,
                   diskV, histV, budget>>

\* broadcastOutput: the range reaches a connection whose transport takes no
\* frame; WriteMessage does not return, with h.mu read-locked and the
\* connection's writeMu held
BroadcastOutputBlocks(k) ==
    /\ Running /\ rd[k].pc = "bo_send" /\ rd[k].at = 0
    /\ \E d \in rd[k].todo :
        /\ ~Accepts(d)
        /\ rd' = [rd EXCEPT ![k].at = d]
    /\ UNCHANGED <<thr, sessV, paneV, mon, statusCalls, connV, diskV, histV, budget>>

\* the peer of connection d reads again: a WriteMessage to it returns
TransportDrains(d) ==
    /\ Running /\ d \in budget.slow
    /\ budget' = [budget EXCEPT !.slow = @ \ {d}]
    /\ UNCHANGED <<thr, sessV, paneV, loopV, connV, diskV, histV>>

\* outputCallback: sess.GetStatus(), the argument of broadcastStatus
OutputGetStatus(k) ==
    /\ Running /\ rd[k].pc = "gs"
    /\ rd' = [rd EXCEPT ![k].pc = "bs", ![k].st = sessStatus]
    /\ UNCHANGED <<thr, sessV, paneV, mon, statusCalls, connV, diskV, histV, budget>>

\* outputCallback: broadcastStatus takes h.mu.RLock
BroadcastStatusBegin(k) ==
    /\ Running /\ rd[k].pc = "bs"
    /\ IF Subscribers = {}
       THEN /\ rd' = [rd EXCEPT ![k].pc = "save", ![k].st = "idle"]
            /\ UNCHANGED hmuReaders
       ELSE /\ rd' = [rd EXCEPT ![k].pc = "bs_send", ![k].todo = Subscribers]
            /\ hmuReaders' = hmuReaders + 1
    /\ UNCHANGED <<thr, sessV, paneV, mon, statusCalls, conns, subs, hpc, hloc, recv,
                   diskV, histV, budget>>

\* broadcastStatus: one send; RUnlock after the last one
BroadcastStatusSend(k) ==
    /\ Running /\ rd[k].pc = "bs_send"
    /\ \E d \in rd[k].todo :
        /\ Accepts(d)
        /\ recv' = [recv EXCEPT ![d] = WriteMessage(@, StatusFrame(rd[k].st))]
        /\ IF rd[k].todo = {d}
           THEN /\ rd' = [rd EXCEPT ![k].pc = "save", ![k].todo = {}, ![k].st = "idle"]
                /\ hmuReaders' = hmuReaders - 1
           ELSE /\ rd' = [rd EXCEPT ![k].todo = @ \ {d}]
                /\ UNCHANGED hmuReaders
    /\ UNCHANGED <<thr, sessV, paneV, mon, statusCalls, conns, subs, hpc, hloc,
                   diskV, histV, budget>>

\* outputCallback: scheduleScrollbackSave, under h.mu.Lock: the pending timer
\* is stopped and a new one is armed; the loop goes round
scheduleScrollbackSave(k) ==
    /\ Running /\ rd[k].pc = "save" /\ hmuReaders = 0
    /\ saveTimer' = ArmSaveTimer(saveTimer)
    /\ rd' = [rd EXCEPT ![k].pc = "select", ![k].pty = 0]
    /\ UNCHANGED <<thr, sessV, paneV, mon, statusCalls, connV, files, mgr, histV,
                   budget>>

\* the time left to an armed timer passes and it fires: its function runs
\* UpdateCwd and Manager.SaveScrollback
SaveTimerFires ==
    /\ Running /\ saveTimer # <<>>
    /\ saveTimer' = Tail(saveTimer)
    /\ files' = SaveScrollback(files)
    /\ UNCHANGED <<thr, sessV, paneV, loopV, connV, mgr, histV, budget>>

\* one step of the clock: every armed timer has one step less to go; a timer
\* that is due fires before the clock goes on
SaveClockTick ==
    /\ Running /\ saveTimer # <<>>
    /\ \A i \in 1..Len(saveTimer) : saveTimer[i] > 0
    /\ saveTimer' = [i \in 1..Len(saveTimer) |-> saveTimer[i] - 1]
    /\ UNCHANGED <<thr, sessV, paneV, loopV, connV, files, mgr, histV, budget>>

\* a timer that is due fires
SaveTimerExpires ==
    /\ saveTimer # <<>> /\ Head(saveTimer) = 0
    /\ SaveTimerFires

\* the child process ends by itself
ChildExits(k) ==
    /\ Running /\ kids[k].alive /\ budget.exits > 0
    /\ kids' = [kids EXCEPT ![k].alive = FALSE]
    /\ budget' = [budget EXCEPT !.exits = @ - 1]
    /\ UNCHANGED <<thr, sessV, panes, nKids, loopV, connV, diskV, histV>>

\* ---- the state tracker of a pane (pane.go) -----------------------------------
\* a LineEntry: the four flags parseLines computes and looksLikeClaudePrompt of
\* its content
LineEntry(s, t, u, sh, cp) ==
    [HasSpinner |-> s, HasToolPattern |-> t, HasClaudeUI |-> u,
     HasShellPrompt |-> sh, claudePrompt |-> cp]

\* the lines the child prints: plain text, a spinner, a tool banner, a box line
\* of the agent's UI, the agent's prompt inside its box, a shell prompt
LineEntries ==
    {LineEntry(FALSE, FALSE, FALSE, FALSE, FALSE),
     LineEntry(TRUE, FALSE, FALSE, FALSE, FALSE),
     LineEntry(FALSE, TRUE, FALSE, FALSE, FALSE),
     LineEntry(FALSE, FALSE, TRUE, FALSE, FALSE),
     LineEntry(FALSE, FALSE, TRUE, FALSE, TRUE),
     LineEntry(FALSE, FALSE, FALSE, TRUE, FALSE)}

\* addLinesToBuffer: the newest maxLines lines are kept
addLinesToBuffer(lines, new) ==
    LET all == lines \o new
    IN IF Len(all) > MaxLines
       THEN SubSeq(all, Len(all) - MaxLines + 1, Len(all)) ELSE all

\* getRecentLines(5)
getRecentLines(lines) ==
    IF Len(lines) <= RecentLines THEN lines
    ELSE SubSeq(lines, Len(lines) - RecentLines + 1, Len(lines))

\* index of the last line of the buffer that has the flag; 0 when none has
LastUI(lines) ==
    IF \E i \in 1..Len(lines) : lines[i].HasClaudeUI
    THEN CHOOSE i \in 1..Len(lines) :
            /\ lines[i].HasClaudeUI
            /\ \A j \in (i + 1)..Len(lines) : ~lines[j].HasClaudeUI
    ELSE 0

LastPrompt(lines) ==
    IF \E i \in 1..Len(lines) : lines[i].HasShellPrompt
    THEN CHOOSE i \in 1..Len(lines) :
            /\ lines[i].HasShellPrompt
            /\ \A j \in (i + 1)..Len(lines) : ~lines[j].HasShellPrompt
    ELSE 0

Verdict(st, conf, ca) == [st |-> st, conf |-> conf, ca |-> ca]

\* analyzeContext that returns shell on a buffer with a shell prompt although
\* claudeActive is set
analyzeContextNotSticky(lines, active) ==
    IF Len(lines) = 0
    THEN IF active THEN Verdict("waiting_input", 50, active)
         ELSE Verdict("shell", 30, active)
    ELSE IF \E i \in 1..Len(lines) : lines[i].HasSpinner
    THEN Verdict("thinking", 85, TRUE)
    ELSE IF \E i \in 1..Len(lines) : lines[i].HasToolPattern
    THEN Verdict("executing", 80, TRUE)
    ELSE IF LastUI(lines) > LastPrompt(lines)
    THEN Verdict("waiting_input",
                 IF lines[Len(lines)].claudePrompt THEN 85 ELSE 70, TRUE)
    ELSE IF LastPrompt(lines) > LastUI(lines)
    THEN Verdict("shell", 80, active)
    ELSE IF active THEN Verdict("waiting_input", 70, active)
    ELSE Verdict("shell", 50, active)

\* Pane.analyzeContext: the verdict of the whole buffer; ca is claudeActive
\* after it
analyzeContext(lines, active) ==
    IF Len(lines) = 0
    THEN IF active THEN Verdict("waiting_input", 50, active)
         ELSE Verdict("shell", 30, active)
    ELSE IF \E i \in 1..Len(lines) : lines[i].HasSpinner
    THEN Verdict("thinking", 85, TRUE)
    ELSE IF \E i \in 1..Len(lines) : lines[i].HasToolPattern
    THEN Verdict("executing", 80, TRUE)
    ELSE IF active
    THEN IF LastUI(lines) > 0 /\ lines[Len(lines)].claudePrompt
         THEN Verdict("waiting_input", 85, active)
         ELSE Verdict("waiting_input", 70, active)
    ELSE IF LastUI(lines) > 0 /\ LastUI(lines) > LastPrompt(lines)
    THEN Verdict("waiting_input",
                 IF lines[Len(lines)].claudePrompt THEN 85 ELSE 70, TRUE)
    ELSE IF LastPrompt(lines) > 0 /\ LastPrompt(lines) > LastUI(lines)
    THEN Verdict("shell", 80, active)
    ELSE Verdict("shell", 50, active)

\* lastInputTime is set, InputToThinkingDelay < now - lastInputTime < 5 s and
\* the input came after the last output
RecentInput(t) == t.inputLater /\ t.typed >= 1 /\ t.typed <= InputWindow

\* Pane.analyzeIOBehavior; fast: outputRate > 1000.  Its two time rules only
\* need the input to be younger than 10 s and the output older than 5 s
analyzeIOBehavior(status, t, active, fast) ==
    IF fast THEN Verdict("executing", 75, active)
    ELSE IF t.inputLater /\ t.typed <= InputWindow /\ active
    THEN Verdict("thinking", 65, active)
    ELSE IF t.quiet > InputWindow /\ active
    THEN Verdict("waiting_input", 60, active)
    ELSE Verdict(status, 30, active)

\* analyzeState that asks the I/O behaviour before the context
analyzeStateIOFirst(status, t, active, fast) ==
    LET recent == getRecentLines(t.lines)
        ctx == analyzeContext(t.lines, active)
        io == analyzeIOBehavior(status, t, ctx.ca, fast)
    IN IF \E i \in 1..Len(recent) : recent[i].HasSpinner
       THEN Verdict("thinking", 95, TRUE)
       ELSE IF \E i \in 1..Len(recent) : recent[i].HasToolPattern
       THEN Verdict("executing", 90, TRUE)
       ELSE IF io.conf >= 70 THEN Verdict(io.st, io.conf, ctx.ca)
       ELSE IF ctx.conf >= 80 THEN ctx
       ELSE IF ctx.conf >= 50 /\ io.conf >= 50 /\ ctx.st = io.st
       THEN Verdict(ctx.st, (ctx.conf + io.conf) \div 2, ctx.ca)
       ELSE IF ctx.conf >= 50 THEN ctx
       ELSE Verdict(status, 40, ctx.ca)

\* Pane.analyzeState
analyzeState(status, t, active, fast) ==
    LET recent == getRecentLines(t.lines)
        ctx == analyzeContext(t.lines, active)
        io == analyzeIOBehavior(status, t, ctx.ca, fast)
    IN IF \E i \in 1..Len(recent) : recent[i].HasSpinner
       THEN Verdict("thinking", 95, TRUE)
       ELSE IF \E i \in 1..Len(recent) : recent[i].HasToolPattern
       THEN Verdict("executing", 90, TRUE)
       ELSE IF ctx.conf >= 80 THEN ctx
       ELSE IF io.conf >= 70 THEN Verdict(io.st, io.conf, ctx.ca)
       ELSE IF ctx.conf >= 50 /\ io.conf >= 50 /\ ctx.st = io.st
       THEN Verdict(ctx.st, (ctx.conf + io.conf) \div 2, ctx.ca)
       ELSE IF ctx.conf >= 50 THEN ctx
       ELSE Verdict(status, 40, ctx.ca)

\* isStrongTransition that lets every transition pass
isAnyTransition(from, to) == TRUE

\* Pane.isStrongTransition
isStrongTransition(from, to) ==
    \/ from = "shell" /\ to \in {"thinking", "executing", "waiting_input"}
    \/ from \in {"thinking", "executing"} /\ to = "waiting_input"

\* a status change by the monitor, as the history keeps it
Move(p, to, conf) ==
    [from |-> p.status, to |-> to, conf |-> conf, quiet |-> p.tracker.quiet]

\* Pane.detectStatus on a chunk that holds the lines new: the Pane fields after
\* it.  The chunk ends the silence, so the history starts again; analyzed keeps
\* oldStatus, newStatus and confidence, and the verdicts of analyzeContext and
\* analyzeIOBehavior on this buffer
detectStatus(p, new, fast) ==
    LET t == [p.tracker EXCEPT !.quiet = 0, !.inputLater = FALSE,
                               !.lines = addLinesToBuffer(@, new)]
        v == analyzeState(p.status, t, p.claudeActive, fast)
        changed == /\ v.st # p.status
                   /\ v.conf >= 60 \/ isStrongTransition(p.status, v.st)
    IN [p EXCEPT !.claudeActive = v.ca,
                 !.status = IF changed THEN v.st ELSE @,
                 !.tracker = IF changed
                             THEN [t EXCEPT !.held = 0, !.confidence = v.conf]
                             ELSE IF v.st = p.status
                             THEN [t EXCEPT !.confidence = v.conf]
                             ELSE t,
                 !.base = IF changed THEN v.st ELSE p.status,
                 !.moves = <<>>,
                 !.analyzed =
                     LET ctx == analyzeContext(t.lines, p.claudeActive)
                         io == analyzeIOBehavior(p.status, t, ctx.ca, fast)
                     IN [old |-> p.status, st |-> v.st, conf |-> v.conf,
                         ctx |-> <<ctx.st, ctx.conf>>, io |-> <<io.st, io.conf>>]]

\* the read loop calls detectStatus on the chunk in hand; a changed status is
\* handed to `go onStatus`
DetectStatus(k) ==
    /\ Running /\ rd[k].pc = "detect"
    /\ \E new \in {<<>>} \cup {<<l>> : l \in LineEntries}, fast \in BOOLEAN :
        LET p == panes[rd[k].pane]
            q == detectStatus(p, new, fast)
        IN /\ q.status # p.status => budget.changes > 0
           /\ panes' = [panes EXCEPT ![rd[k].pane] = q]
           /\ statusCalls' = IF q.status = p.status THEN statusCalls
                             ELSE [statusCalls EXCEPT ![q.status] = @ + 1]
           /\ budget' = IF q.status = p.status THEN budget
                        ELSE [budget EXCEPT !.changes = @ - 1]
    /\ rd' = [rd EXCEPT ![k].pc = "bo"]
    /\ UNCHANGED <<thr, sessV, nKids, kids, mon, connV, diskV, histV>>

\* the result of a write or a window-size ioctl on the pane's PTY file: the
\* closed error without a file, an error of the file once it was closed
PtyResult(p) ==
    IF p.pty = 0 THEN "closed"
    ELSE IF kids[p.pty].ptyOpen THEN "ok" ELSE "failed"

\* Pane.Write (through handleInput and Session.Write, which drops the input
\* of a session without main pane): lastInputTime is assigned under p.mu,
\* then the bytes go to the PTY
PaneWrite(c) ==
    /\ Running /\ c \in conns /\ hpc[c] = "idle" /\ budget.msgs > 0
    /\ exists /\ mainPane # 0
    /\ panes' = [panes EXCEPT
                   ![mainPane].tracker = [@ EXCEPT !.typed = 0, !.inputLater = TRUE],
                   ![mainPane].lastIO =
                       [op |-> "write", res |-> PtyResult(panes[mainPane]),
                        hadPty |-> panes[mainPane].pty # 0, stamped |-> TRUE]]
    /\ budget' = [budget EXCEPT !.msgs = @ - 1]
    /\ UNCHANGED <<thr, sessV, nKids, kids, loopV, connV, diskV, histV>>

\* Pane.Resize (through handleResize and Session.Resize), under p.mu.RLock
PaneResize(c) ==
    /\ Running /\ c \in conns /\ hpc[c] = "idle" /\ budget.msgs > 0
    /\ exists /\ mainPane # 0
    /\ panes' = [panes EXCEPT
                   ![mainPane].lastIO =
                       [op |-> "resize", res |-> PtyResult(panes[mainPane]),
                        hadPty |-> panes[mainPane].pty # 0, stamped |-> FALSE]]
    /\ budget' = [budget EXCEPT !.msgs = @ - 1]
    /\ UNCHANGED <<thr, sessV, nKids, kids, loopV, connV, diskV, histV>>

\* the clock readings one tick later
TickClock(t) ==
    [t EXCEPT !.quiet = IF @ > ExecutingTimeout THEN @ ELSE @ + 1,
              !.held = IF @ > ExecutingTimeout THEN @ ELSE @ + 1,
              !.typed = IF @ > InputWindow THEN @ ELSE @ + 1]

\* monitorTimeouts: the ticker fires; pollClaudeTranscript, lines 361-369,
\* reads claudeActive and the status under p.mu
TickerFires(k) ==
    /\ Running /\ mon[k].pc = "run"
    /\ panes' = [panes EXCEPT ![mon[k].pane].tracker = TickClock(@)]
    /\ mon' = [mon EXCEPT
                 ![k].pc = IF panes[mon[k].pane].claudeActive THEN "poll"
                           ELSE "timeouts",
                 ![k].old = panes[mon[k].pane].status]
    /\ UNCHANGED <<thr, sessV, nKids, kids, rd, statusCalls, connV, diskV, histV,
                   budget>>

\* what GetClaudeState reports: a status of the transcript, or an error or an
\* unknown status, on which the poll returns
TranscriptStates == {"thinking", "executing", "waiting_input", "idle", "none"}

\* the switch of pollClaudeTranscript
TranscriptStatus(state) == IF state = "idle" THEN "waiting_input" ELSE state

\* pollClaudeTranscript, lines 372-406: the transcript's status, when it is not
\* the status read before, is written in a second critical section
pollClaudeTranscript(k) ==
    /\ Running /\ mon[k].pc = "poll"
    /\ \E state \in TranscriptStates :
        LET p == panes[mon[k].pane]
            ns == TranscriptStatus(state)
        IN IF state = "none" \/ ns = mon[k].old
           THEN UNCHANGED <<panes, statusCalls, budget>>
           ELSE /\ budget.changes > 0
                /\ panes' = [panes EXCEPT ![mon[k].pane] =
                      [p EXCEPT !.status = ns,
                                !.tracker = [@ EXCEPT !.held = 0,
                                                      !.confidence = 95],
                                !.moves = Append(@, Move(p, ns, 95))]]
                /\ statusCalls' = [statusCalls EXCEPT ![ns] = @ + 1]
                /\ budget' = [budget EXCEPT !.changes = @ - 1]
    /\ mon' = [mon EXCEPT ![k].pc = "timeouts", ![k].old = "idle"]
    /\ UNCHANGED <<thr, sessV, nKids, kids, rd, connV, diskV, histV>>

\* the switch of Pane.checkTimeouts: status and confidence after it
TimeoutVerdict(p) ==
    CASE p.status = "thinking" /\ p.tracker.quiet > ThinkingTimeout ->
            Verdict("waiting_input", 60, p.claudeActive)
      [] p.status = "executing" /\ p.tracker.held > ExecutingTimeout ->
            Verdict("waiting_input", 50, p.claudeActive)
      [] /\ p.status \in {"shell", "waiting_input"}
         /\ RecentInput(p.tracker) /\ p.claudeActive ->
            Verdict("thinking", 70, p.claudeActive)
      [] OTHER -> Verdict(p.status, p.tracker.confidence, p.claudeActive)

\* Pane.checkTimeouts, under p.mu; a changed status is handed to `go onStatus`
\* and the loop goes round
checkTimeouts(k) ==
    /\ Running /\ mon[k].pc = "timeouts"
    /\ LET p == panes[mon[k].pane]
           v == TimeoutVerdict(p)
       IN IF v.st = p.status
          THEN UNCHANGED <<panes, statusCalls, budget>>
          ELSE /\ budget.changes > 0
               /\ panes' = [panes EXCEPT ![mon[k].pane] =
                     [p EXCEPT !.status = v.st,
                               !.tracker = [@ EXCEPT !.held = 0,
                                                     !.confidence = v.conf],
                               !.moves = Append(@, Move(p, v.st, v.conf))]]
               /\ statusCalls' = [statusCalls EXCEPT ![v.st] = @ + 1]
               /\ budget' = [budget EXCEPT !.changes = @ - 1]
    /\ mon' = [mon EXCEPT ![k].pc = "run"]
    /\ UNCHANGED <<thr, sessV, nKids, kids, rd, connV, diskV, histV>>

\* ---- Pane.monitorTimeouts --------------------------------------------------
\* the select picks the done case: the only exit of the loop
MonitorDone(k) ==
    /\ Running /\ mon[k].pc = "run" /\ panes[mon[k].pane].done
    /\ mon' = [mon EXCEPT ![k].pc = "exit"]
    /\ UNCHANGED <<thr, sessV, paneV, rd, statusCalls, connV, diskV, histV, budget>>

\* the select picks the ticker: pollClaudeTranscript, lines 361-392.  The
\* transcript is consulted only when claudeActive; ns is the status it maps to,
\* compared with the status read in the first critical section
MonitorTick(k) ==
    /\ Running /\ mon[k].pc = "run"
    /\ \/ mon' = [mon EXCEPT ![k].pc = "check"]
       \/ /\ panes[mon[k].pane].claudeActive /\ budget.changes > 0
          /\ \E ns \in {"thinking", "executing", "waiting_input"} :
                /\ ns # panes[mon[k].pane].status
                /\ mon' = [mon EXCEPT ![k].pc = "pollw", ![k].ns = ns]
    /\ UNCHANGED <<thr, sessV, paneV, rd, statusCalls, connV, diskV, histV, budget>>

\* pollClaudeTranscript, lines 393-405: the status is overwritten in a second
\* critical section and handed to `go onStatus`
MonitorPollWrite(k) ==
    /\ Running /\ mon[k].pc = "pollw" /\ budget.changes > 0
    /\ panes' = [panes EXCEPT ![mon[k].pane].status = mon[k].ns]
    /\ statusCalls' = [statusCalls EXCEPT ![mon[k].ns] = @ + 1]
    /\ mon' = [mon EXCEPT ![k].pc = "check", ![k].ns = "idle"]
    /\ budget' = [budget EXCEPT !.changes = @ - 1]
    /\ UNCHANGED <<thr, sessV, nKids, kids, rd, connV, diskV, histV>>

\* the statuses checkTimeouts can move the pane to, the clock permitting
TimeoutTargets(p) ==
    CASE p.status \in {"thinking", "executing"} -> {"waiting_input"}
      [] p.status \in {"shell", "waiting_input"} /\ p.claudeActive -> {"thinking"}
      [] OTHER -> {}

\* Pane.checkTimeouts, under p.mu; the loop goes round
MonitorCheck(k) ==
    /\ Running /\ mon[k].pc = "check"
    /\ \/ UNCHANGED <<panes, statusCalls, budget>>
       \/ /\ budget.changes > 0
          /\ \E ns \in TimeoutTargets(panes[mon[k].pane]) :
               /\ panes' = [panes EXCEPT ![mon[k].pane].status = ns]
               /\ statusCalls' = [statusCalls EXCEPT ![ns] = @ + 1]
          /\ budget' = [budget EXCEPT !.changes = @ - 1]
    /\ mon' = [mon EXCEPT ![k].pc = "run"]
    /\ UNCHANGED <<thr, sessV, nKids, kids, rd, connV, diskV, histV>>

\* ---- control plane ---------------------------------------------------------
\* DELETE /api/sessions/{id}: HandleSessionUpdate saves the scrollback first
DeleteRequest ==
    /\ Running /\ mgr.del = "idle" /\ budget.msgs > 0 /\ exists
    /\ files' = SaveScrollback(files)
    /\ mgr' = [mgr EXCEPT !.del = "saved"]
    /\ msgLog' = Append(msgLog, "delete")
    /\ budget' = [budget EXCEPT !.msgs = @ - 1]
    /\ UNCHANGED <<thr, sessV, paneV, loopV, connV, saveTimer, nChunks, chunkLoop,
                   seenBefore, subAt>>

\* Manager.Delete: session.Stop(), the registry entry and both files are removed
ManagerDelete ==
    /\ Running /\ mgr.del = "saved"
    /\ panes' = PanesAfterStop
    /\ kids' = KidsAfterSessionStop
    /\ sessStatus' = "stopped"
    /\ exists' = FALSE
    /\ files' = [json |-> FALSE, sb |-> FALSE, sbData |-> <<>>, info |-> NoInfo]
    /\ mgr' = [mgr EXCEPT !.del = "done"]
    /\ UNCHANGED <<thr, mainPane, nPanes, paneLayout, paneKeys, nKids, loopV, connV, saveTimer,
                   histV, budget>>

\* Manager.SaveAllSessions: metadata and scrollback of every registered
\* session are written; no pane is stopped
FilesAfterSaveAll ==
    IF exists
    THEN SaveScrollback([files EXCEPT !.json = TRUE,
                                      !.info = saveSession(mgr.sess, sessStatus)])
    ELSE files

\* SIGINT/SIGTERM: main's shutdown goroutine runs SaveAllSessions and os.Exit(0)
Shutdown ==
    /\ Running /\ budget.signals > 0
    /\ files' = FilesAfterSaveAll
    /\ mgr' = [mgr EXCEPT !.exited = TRUE,
                           !.saved = IF exists THEN [s |-> mgr.sess, status |-> sessStatus]
                                     ELSE @]
    /\ budget' = [budget EXCEPT !.signals = @ - 1]
    /\ UNCHANGED <<thr, sessV, paneV, loopV, connV, saveTimer, histV>>

\* ---- metadata persistence --------------------------------------------------
\* Manager.UpdateSession: <id>.json is rewritten from the session as it is now
FilesAfterUpdate(s) ==
    [files EXCEPT !.json = TRUE, !.info = saveSession(s, sessStatus)]
MgrAfterUpdate(s) ==
    [mgr EXCEPT !.sess = s, !.saved = [s |-> s, status |-> sessStatus]]

\* PUT /api/sessions/{id}/name
HandleRename(name) ==
    /\ Running /\ exists /\ budget.msgs > 0
    /\ LET s == [mgr.sess EXCEPT !.Name = name]
       IN /\ files' = FilesAfterUpdate(s)
          /\ mgr' = MgrAfterUpdate(s)
    /\ budget' = [budget EXCEPT !.msgs = @ - 1]
    /\ UNCHANGED <<thr, sessV, paneV, loopV, connV, saveTimer, histV>>

\* PUT /api/sessions/{id}/customize: only the fields the request supplies change
HandleCustomize(name, model) ==
    /\ Running /\ exists /\ budget.msgs > 0
    /\ LET s == [mgr.sess EXCEPT
                    !.Name = IF name # "" THEN name ELSE @,
                    !.RobotModel = IF model # "" THEN model ELSE @]
       IN /\ files' = FilesAfterUpdate(s)
          /\ mgr' = MgrAfterUpdate(s)
    /\ budget' = [budget EXCEPT !.msgs = @ - 1]
    /\ UNCHANGED <<thr, sessV, paneV, loopV, connV, saveTimer, histV>>

\* detectClaudeSession, one ticker round in which the oracle reports session id
\* found: a new id is stored in the session and the session is saved
DetectClaudeSession(found) ==
    /\ Running /\ exists /\ budget.changes > 0
    /\ sessStatus # "stopped"
    /\ found # "" /\ found # mgr.sess.LastClaudeSessionID
    /\ LET s == [mgr.sess EXCEPT !.LastClaudeSessionID = found]
       IN /\ files' = FilesAfterUpdate(s)
          /\ mgr' = MgrAfterUpdate(s)
    /\ budget' = [budget EXCEPT !.changes = @ - 1]
    /\ UNCHANGED <<thr, sessV, paneV, loopV, connV, saveTimer, histV>>

\* NewManager in the next process: loadSessions reads every <id>.json
NewManagerLoads ==
    /\ ~Running /\ files.json /\ mgr.loaded = NoSession
    /\ mgr' = [mgr EXCEPT !.loaded = loadSessions(files.info)]
    /\ UNCHANGED <<thr, sessV, paneV, loopV, connV, saveTimer, files, histV, budget>>

\* ---- layout operations -------------------------------------------------------
\* Session.SplitPane for a pane id and a pane id that is not in the layout (the
\* Pane objects of keys other than "main" are not modelled)
SplitLayout(paneID, newPaneID, direction) ==
    /\ Running /\ exists /\ budget.msgs > 0
    /\ paneLayout # NilLayout
    /\ Len(LayoutLeaves(paneLayout)) < MaxLeaves
    /\ newPaneID \notin Range(LayoutLeaves(paneLayout))
    /\ paneLayout' = splitPaneInLayout(paneLayout, paneID, newPaneID, direction)
    /\ msgLog' = Append(msgLog, [op |-> "split", pane |-> paneID, new |-> newPaneID,
                                 direction |-> direction, before |-> paneLayout])
    /\ paneKeys' = paneKeys \cup {newPaneID}
    /\ budget' = [budget EXCEPT !.msgs = @ - 1]
    /\ UNCHANGED <<thr, exists, sessStatus, mainPane, nPanes, paneV, loopV, connV, diskV,
                   nChunks, chunkLoop, seenBefore, subAt>>

\* Session.RemovePane for a pane of the layout: the pane is stopped and leaves
\* the map and the layout
RemoveFromLayout(paneID) ==
    /\ Running /\ exists /\ budget.msgs > 0
    /\ paneLayout # NilLayout
    /\ paneID \in Range(LayoutLeaves(paneLayout))
    /\ paneLayout' = removePaneFromLayout(paneLayout, paneID)
    /\ msgLog' = Append(msgLog, [op |-> "remove", pane |-> paneID, new |-> "",
                                 direction |-> "", before |-> paneLayout])
    /\ paneKeys' = paneKeys \ {paneID}
    /\ mainPane' = IF paneID = "main" THEN 0 ELSE mainPane
    /\ panes' = IF paneID = "main" THEN PanesAfterStop ELSE panes
    /\ kids' = IF paneID = "main" THEN KidsAfterSessionStop ELSE kids
    /\ budget' = [budget EXCEPT !.msgs = @ - 1]
    /\ UNCHANGED <<thr, exists, sessStatus, nPanes, nKids, loopV, connV, diskV,
                   nChunks, chunkLoop, seenBefore, subAt>>

\* ---- the session's pane API ------------------------------------------------------
\* The calls below take any pane id: the code checks none of them against the
\* map or the layout.  The Pane objects of keys other than "main" are not
\* modelled: the claims checked here look at the keys and the layout only.
\* msgLog holds the last call that changed the map or the layout, with the
\* layout before it, and the calls without pane id made since.

\* Session.GetMainPane as a set of pane ids it can return, empty for nil: the
\* pane the root names when the root is a leaf, else whichever pane the range
\* over the map yields first
MainPaneIDs ==
    IF paneLayout # NilLayout /\ paneLayout.PaneID # ""
    THEN {paneLayout.PaneID} \cap paneKeys
    ELSE paneKeys

\* Session.CreatePane(paneID): the map entry is set; the layout is touched only
\* when there is none
SessionCreatePane(paneID) ==
    /\ Running /\ exists /\ budget.msgs > 0
    /\ paneKeys' = paneKeys \cup {paneID}
    /\ paneLayout' = IF paneLayout = NilLayout THEN RootLayout(paneID) ELSE paneLayout
    /\ IF paneID = "main"
       THEN /\ nPanes < MaxPanes
            /\ nPanes' = nPanes + 1
            /\ mainPane' = nPanes + 1
            /\ panes' = [panes EXCEPT ![nPanes + 1] = NewPane]
       ELSE UNCHANGED <<nPanes, mainPane, panes>>
    /\ msgLog' = <<[op |-> "CreatePane", pane |-> paneID, before |-> paneLayout]>>
    /\ budget' = [budget EXCEPT !.msgs = @ - 1]
    /\ UNCHANGED <<thr, exists, sessStatus, nKids, kids, loopV, connV, diskV, nChunks,
                   chunkLoop, seenBefore, subAt>>

\* Session.SplitPane(paneID, newPaneID, direction): the map entry of newPaneID
\* is set, whatever paneID is, and the layout is rewritten
SessionSplitPane(paneID, newPaneID, direction) ==
    /\ Running /\ exists /\ budget.msgs > 0
    /\ paneLayout # NilLayout => Len(LayoutLeaves(paneLayout)) < MaxLeaves
    /\ paneKeys' = paneKeys \cup {newPaneID}
    /\ paneLayout' = splitPaneInLayout(paneLayout, paneID, newPaneID, direction)
    /\ IF newPaneID = "main"
       THEN /\ nPanes < MaxPanes
            /\ nPanes' = nPanes + 1
            /\ mainPane' = nPanes + 1
            /\ panes' = [panes EXCEPT ![nPanes + 1] = NewPane]
       ELSE UNCHANGED <<nPanes, mainPane, panes>>
    /\ msgLog' = <<[op |-> "SplitPane", pane |-> paneID, before |-> paneLayout]>>
    /\ budget' = [budget EXCEPT !.msgs = @ - 1]
    /\ UNCHANGED <<thr, exists, sessStatus, nKids, kids, loopV, connV, diskV, nChunks,
                   chunkLoop, seenBefore, subAt>>

\* split_pane(existing_id, new_id, direction): SplitPane with a pane id that is
\* new to the session
SplitOffPane(paneID, newPaneID, direction) ==
    /\ newPaneID \notin paneKeys
    /\ SessionSplitPane(paneID, newPaneID, direction)

\* Session.RemovePane(paneID): false for a pane that is not in the map; else
\* the pane is stopped and leaves the map and the layout
SessionRemovePane(paneID) ==
    /\ Running /\ exists /\ budget.msgs > 0
    /\ paneID \in paneKeys
    /\ paneKeys' = paneKeys \ {paneID}
    /\ paneLayout' = removePaneFromLayout(paneLayout, paneID)
    /\ mainPane' = IF paneID = "main" THEN 0 ELSE mainPane
    /\ panes' = IF paneID = "main" THEN PanesAfterStop ELSE panes
    /\ kids' = IF paneID = "main" THEN KidsAfterSessionStop ELSE kids
    /\ msgLog' = <<[op |-> "RemovePane", pane |-> paneID, before |-> paneLayout]>>
    /\ budget' = [budget EXCEPT !.msgs = @ - 1]
    /\ UNCHANGED <<thr, exists, sessStatus, nPanes, nKids, loopV, connV, diskV, nChunks,
                   chunkLoop, seenBefore, subAt>>

\* Session.Reset: every pane stopped, an empty map, no layout, status idle
SessionReset ==
    /\ Running /\ exists /\ budget.msgs > 0
    /\ panes' = PanesAfterStop
    /\ kids' = KidsAfterSessionStop
    /\ mainPane' = 0
    /\ paneKeys' = {}
    /\ paneLayout' = NilLayout
    /\ sessStatus' = "idle"
    /\ msgLog' = <<[op |-> "Reset", pane |-> "", before |-> paneLayout]>>
    /\ budget' = [budget EXCEPT !.msgs = @ - 1]
    /\ UNCHANGED <<thr, exists, nPanes, nKids, loopV, connV, diskV, nChunks, chunkLoop,
                   seenBefore, subAt>>

\* the session operations that take no pane id
DelegatedOps == {"Write", "Resize", "GetScrollback", "UpdateCwd"}

\* Session.Write, Resize, GetScrollback, UpdateCwd (through GetProcessCwd):
\* pane := s.GetMainPane(), and the call on that pane; nothing for nil
MainPaneOp(op) ==
    /\ Running /\ exists /\ budget.msgs > 0
    /\ \E target \in MainPaneIDs :
          msgLog' = Append(msgLog, [op |-> op, pane |-> target])
    /\ budget' = [budget EXCEPT !.msgs = @ - 1]
    /\ UNCHANGED <<thr, sessV, paneV, loopV, connV, diskV, nChunks, chunkLoop,
                   seenBefore, subAt>>

\* ---- Session.UpdateSessionStatus ---------------------------------------------
\* under s.mu: idle for an empty map, else the status of highest priority
UpdateSessionStatus ==
    /\ Running /\ budget.msgs > 0
    /\ \E order \in RangeOrders(SessionPanes) :
          sessStatus' = HighestPriority(order, "idle")
    /\ msgLog' = Append(msgLog, "update")
    /\ budget' = [budget EXCEPT !.msgs = @ - 1]
    /\ UNCHANGED <<thr, exists, mainPane, nPanes, paneLayout, paneKeys, paneV, loopV, connV, diskV, nChunks,
                   chunkLoop, seenBefore, subAt>>

\* ---- the locks ----------------------------------------------------------------------
\* The lock-level model: each thread is the sequence of lock operations its code
\* performs, in program order.  p is Pane.mu, s Session.mu, m Manager.mu, h
\* Handler.mu (all sync.RWMutex) and w the writeMu of the subscribed connection.
Lk(l, mode) == [op |-> "lock", l |-> l, mode |-> mode]
Ul(l) == [op |-> "unlock", l |-> l, mode |-> ""]
\* Lock (or RLock), statements that take no lock and do not block, Unlock
Cs(l, mode) == [op |-> "cs", l |-> l, mode |-> mode]
\* conn.WriteMessage on the subscribed connection
Snd == [op |-> "send", l |-> "", mode |-> ""]
\* `go p.onStatus(st)` / `go onStatus(st)`
Go == [op |-> "go", l |-> "", mode |-> ""]
\* p.onStatus(st), called by the thread itself
Call == [op |-> "onStatus", l |-> "", mode |-> ""]

\* the onStatus closure of Session.Start, called directly: s.mu.Lock, the
\* assignments, s.mu.Unlock; s.onStatusChange is never set, so cb is nil
onStatusClosure == <<Call, Cs("s", "w")>>

\* broadcastOutput / broadcastStatus with one subscribed connection
broadcast == <<Lk("h", "r"), Lk("w", "w"), Snd, Ul("w"), Ul("h")>>

\* Session.UpdateCwd: GetMainPane, Pane.GetProcessCwd, then s.mu.Lock
UpdateCwd == <<Cs("s", "r"), Cs("p", "r"), Cs("s", "w")>>

\* Session.GetScrollback: GetMainPane, Pane.GetScrollback
SessionGetScrollback == <<Cs("s", "r"), Cs("p", "r")>>

\* Session.Stop / Session.Reset: Pane.Stop on the pane under s.mu
SessionStopLocks == <<Lk("s", "w"), Cs("p", "w"), Ul("s")>>

\* Pane.readOutput: one chunk (append, detectStatus with its `go p.onStatus`
\* under p.mu, the outputCallback of handleStart), then the read error
readOutput ==
    <<Cs("p", "w"), Lk("p", "w"), Go, Ul("p")>>
        \o broadcast \o <<Cs("s", "r")>> \o broadcast \o <<Cs("h", "w")>>
        \o <<Cs("p", "w")>> \o onStatusClosure

\* Pane.monitorTimeouts: one tick, pollClaudeTranscript and checkTimeouts, each
\* changing the status
monitorTimeouts == <<Cs("p", "w"), Cs("p", "w"), Go, Lk("p", "w"), Go, Ul("p")>>

\* handleSubscribe sending its snapshot without the connection's writeMu
handleSubscribeNoWriteMu ==
    <<Cs("h", "w"), Cs("m", "r")>> \o UpdateCwd \o <<Cs("m", "w")>>
        \o SessionGetScrollback \o <<Snd>>

\* Handler.handleSubscribe
handleSubscribeLocks ==
    <<Cs("h", "w"), Cs("m", "r")>> \o UpdateCwd \o <<Cs("m", "w")>>
        \o SessionGetScrollback \o <<Lk("w", "w"), Snd, Ul("w")>>

\* Handler.handleInput: manager.Get, SetLastInputAt, Session.Write
handleInput == <<Cs("m", "r"), Cs("s", "w"), Cs("s", "r"), Cs("s", "w"), Cs("p", "w")>>

\* Handler.handleStop
handleStopLocks ==
    <<Cs("m", "r")>> \o UpdateCwd \o <<Cs("m", "w")>> \o SessionGetScrollback
        \o SessionStopLocks \o broadcast

\* Handler.handleRestart: manager.Get, Reset, GetLastClaudeSessionID, Session.Start
handleRestartLocks ==
    <<Cs("m", "r")>> \o SessionStopLocks
        \o <<Cs("s", "r"), Cs("s", "r"), Cs("s", "w"), Cs("p", "w"), Cs("s", "w")>>

\* the closure of scheduleScrollbackSave's timer
saveTimerClosure == UpdateCwd \o <<Cs("m", "w")>> \o SessionGetScrollback

\* Manager.Delete
ManagerDeleteLocks == <<Lk("m", "w")>> \o SessionStopLocks \o <<Ul("m")>>

\* Manager.SaveAllSessions
SaveAllSessions == <<Lk("m", "w")>> \o UpdateCwd \o SessionGetScrollback \o <<Ul("m")>>

\* the threads that write to the subscribed connection: the read loop and the
\* handlers above, and the broadcastOutput call of the read loop of another
\* session the connection is subscribed to (no other thread here takes that
\* session's and that pane's locks)
WriterNames == {"readOutput", "otherReadOutput", "handleSubscribe", "handleStop"}

ThreadNames ==
    {"readOutput", "monitorTimeouts", "handleSubscribe", "handleInput", "handleStop",
     "handleRestart", "saveTimer", "Delete", "SaveAllSessions"}

ThreadCode(n) ==
    CASE n = "readOutput" -> readOutput
      [] n = "monitorTimeouts" -> monitorTimeouts
      [] n = "handleSubscribe" -> handleSubscribeLocks
      [] n = "handleInput" -> handleInput
      [] n = "handleStop" -> handleStopLocks
      [] n = "handleRestart" -> handleRestartLocks
      [] n = "saveTimer" -> saveTimerClosure
      [] n = "Delete" -> ManagerDeleteLocks
      [] n = "SaveAllSessions" -> SaveAllSessions
      [] n = "otherReadOutput" -> broadcast

\* the threads S at their first statement
StartedThreads(S) ==
    [run |-> [n \in S |-> [todo |-> ThreadCode(n), held |-> {}]], cbs |-> 0]

Threads == DOMAIN thr.run

\* sync.RWMutex and sync.Mutex: a write lock needs the lock free, a read lock
\* needs it free of writers; a thread's own hold counts like any other
CanLock(l, mode) ==
    \A n \in Threads :
        /\ <<l, "w">> \notin thr.run[n].held
        /\ mode = "w" => <<l, "r">> \notin thr.run[n].held

NextOp(n) == Head(thr.run[n].todo)

AtOp(n, ops) ==
    n \in Threads /\ thr.run[n].todo # <<>> /\ NextOp(n).op \in ops

Advanced(n, held) ==
    [thr EXCEPT !.run[n] = [todo |-> Tail(thr.run[n].todo), held |-> held]]

LockRest == <<sessV, paneV, loopV, connV, diskV, histV, budget>>

\* Lock / RLock returns
ThreadLocks(n) ==
    /\ Running /\ AtOp(n, {"lock"}) /\ CanLock(NextOp(n).l, NextOp(n).mode)
    /\ thr' = Advanced(n, thr.run[n].held \cup {<<NextOp(n).l, NextOp(n).mode>>})
    /\ UNCHANGED LockRest

\* Unlock / RUnlock
ThreadUnlocks(n) ==
    /\ Running /\ AtOp(n, {"unlock"})
    /\ thr' = Advanced(n, {x \in thr.run[n].held : x[1] # NextOp(n).l})
    /\ UNCHANGED LockRest

\* a critical section without calls: lock, release
ThreadSection(n) ==
    /\ Running /\ AtOp(n, {"cs"}) /\ CanLock(NextOp(n).l, NextOp(n).mode)
    /\ thr' = Advanced(n, thr.run[n].held)
    /\ UNCHANGED LockRest

\* WriteMessage returns: the peer takes the frame
ThreadSends(n) ==
    /\ Running /\ AtOp(n, {"send"}) /\ Accepts(1)
    /\ thr' = Advanced(n, thr.run[n].held)
    /\ UNCHANGED LockRest

\* `go onStatus(st)`: a new goroutine, which holds no lock
ThreadSpawns(n) ==
    /\ Running /\ AtOp(n, {"go"})
    /\ thr' = [Advanced(n, thr.run[n].held) EXCEPT !.cbs = @ + 1]
    /\ UNCHANGED LockRest

\* the thread enters the onStatus closure itself
ThreadCalls(n) ==
    /\ Running /\ AtOp(n, {"onStatus"})
    /\ thr' = Advanced(n, thr.run[n].held)
    /\ UNCHANGED LockRest

\* a goroutine started by `go onStatus(st)` runs the closure: its critical
\* section under s.mu
CallbackRuns ==
    /\ Running /\ thr.cbs > 0 /\ CanLock("s", "w")
    /\ thr' = [thr EXCEPT !.cbs = @ - 1]
    /\ UNCHANGED LockRest

\* ---- the system ------------------------------------------------------------
SubscribeStep ==
    \E c \in Conns : handleSubscribe(c) \/ SubscribeSnapshot(c) \/ SubscribeSend(c)

\* the next step of the read loop launched with child k
ReadLoop(k) ==
    \/ ReadSelect(k) \/ ReadAppend(k) \/ ReadError(k) \/ ReadErrorNotify(k)
    \/ ReadDetect(k) \/ BroadcastOutputBegin(k) \/ BroadcastOutputSend(k)
    \/ OutputGetStatus(k) \/ BroadcastStatusBegin(k) \/ BroadcastStatusSend(k)
    \/ scheduleScrollbackSave(k)

ReadLoopStep == \E k \in Kids : ReadLoop(k)

\* the next step of the monitor loop launched with child k
Monitor(k) ==
    MonitorDone(k) \/ MonitorTick(k) \/ MonitorPollWrite(k) \/ MonitorCheck(k)

MonitorStep == \E k \in Kids : Monitor(k)

\* Fan-out: a session whose shell is running (started by a connection that has
\* gone since), and connections that subscribe while the read loop emits.
Init ==
    InitWith(Conns, {}, TRUE,
             [msgs |-> MaxMsgs, reads |-> MaxReads, changes |-> 0, exits |-> 1,
              signals |-> 0, out |-> <<>>, slow |-> {}])

Next ==
    \/ SubscribeStep
    \/ ReadLoopStep
    \/ \E k \in Kids : ChildExits(k)

Spec == Init /\ [][Next]_vars

\* Lifecycle: a fresh session and one connection that starts, stops and
\* restarts it, while it can be deleted and the server can be shut down.
StartStep ==
    \E c \in Conns :
        \/ handleStart(c) \/ SubscribeSnapshot(c) \/ SubscribeSend(c)
        \/ SessionStartGetPane(c) \/ CreatePane(c) \/ PaneStart(c)
        \/ PaneStartFails(c) \/ SessionStartStatus(c) \/ handleRestart(c)

\* the next step of a handler goroutine that is in handleStop
Stopping(c) == SessionStop(c) \/ StopBroadcastBegin(c) \/ StopBroadcastSend(c)

StopStep == \E c \in Conns : handleStop(c) \/ Stopping(c)

InitLife ==
    InitWith({1}, {}, FALSE,
             [msgs |-> LifeMsgs, reads |-> LifeReads, changes |-> 0,
              exits |-> 0, signals |-> 1, out |-> <<>>, slow |-> {}])

NextLife ==
    \/ StartStep
    \/ StopStep
    \/ ReadLoopStep
    \/ \E k \in Kids : MonitorDone(k) \/ MonitorTick(k) \/ MonitorCheck(k)
    \/ DeleteRequest
    \/ ManagerDelete
    \/ Shutdown

SpecLife == InitLife /\ [][NextLife]_vars


\* Natural end: a running session with its starter still subscribed; the child
\* writes, is classified, and may end by itself; the client may send one stop.
\* The Go scheduler runs every goroutine that can take a step, and the ticker
\* and the debounce timer fire: weak fairness on each of them.  A select with
\* several ready cases picks one at random, so a monitor whose done is closed
\* does not take the ticker case for ever: strong fairness on MonitorDone.
\* Nothing is assumed of the child or of the client.
InitFair ==
    InitWith({1}, {1}, TRUE,
             [msgs |-> FairMsgs, reads |-> FairReads, changes |-> FairChanges,
              exits |-> 1, signals |-> 0, out |-> <<>>, slow |-> {}])

NextFair ==
    \/ StopStep
    \/ ReadLoopStep
    \/ MonitorStep
    \/ \E st \in Statuses : OnStatusRun(st)
    \/ SaveTimerFires
    \/ \E k \in Kids : ChildExits(k)

Fairness ==
    /\ \A k \in Kids : WF_vars(ReadLoop(k)) /\ WF_vars(Monitor(k))
    /\ \A k \in Kids : SF_vars(MonitorDone(k))
    /\ \A c \in Conns : WF_vars(Stopping(c))
    /\ \A st \in Statuses : WF_vars(OnStatusRun(st))
    /\ WF_vars(SaveTimerFires)

SpecFair == InitFair /\ [][NextFair]_vars /\ Fairness

\* Read loop alone: a running session without connections, whose child writes
\* a stream of whole UTF-8 characters that the PTY reads cut at any byte.
\* One character of each length: "A", U+00E9, U+20AC, U+1F600.
Utf8Chars == {<<65>>, <<195, 169>>, <<226, 130, 172>>, <<240, 159, 152, 128>>}

RECURSIVE Utf8Streams(_)
Utf8Streams(n) ==
    IF n = 0 THEN {<<>>}
    ELSE LET S == Utf8Streams(n - 1)
         IN S \cup {s \o ch : s \in S, ch \in Utf8Chars}

InitRead ==
    \E s \in Utf8Streams(MaxChars) :
        InitWith({}, {}, TRUE,
                 [msgs |-> 0, reads |-> 0, changes |-> 0, exits |-> 1,
                  signals |-> 0, out |-> s, slow |-> {}])

NextRead ==
    \/ \E k \in Kids :
          \/ ReadSelect(k) \/ ReadStream(k) \/ ReadError(k) \/ ReadErrorNotify(k)
          \/ ReadDetect(k) \/ BroadcastOutputBegin(k) \/ OutputGetStatus(k)
          \/ BroadcastStatusBegin(k) \/ scheduleScrollbackSave(k)
    \/ \E k \in Kids : ChildExits(k)

SpecRead == InitRead /\ [][NextRead]_vars

\* Read loop alone, any bytes: the child writes bytes that need not be UTF-8.
\* One byte of each kind findLastValidUTF8 tells apart: ASCII, a continuation
\* byte, the start bytes of 2, 3 and 4 byte sequences, and 0xFF.
ByteKinds == {65, 128, 195, 226, 240, 255}

RECURSIVE ByteStreams(_)
ByteStreams(n) ==
    IF n = 0 THEN {<<>>}
    ELSE LET S == ByteStreams(n - 1)
         IN S \cup {Append(s, b) : s \in S, b \in ByteKinds}

InitBytes ==
    \E s \in ByteStreams(MaxBytes) :
        InitWith({}, {}, TRUE,
                 [msgs |-> 0, reads |-> 0, changes |-> 0, exits |-> 1,
                  signals |-> 0, out |-> s, slow |-> {}])

SpecBytes == InitBytes /\ [][NextRead]_vars

\* ---- the tracker of one running pane ----------------------------------------
\* the read loop classifying the lines of each chunk, the monitor with the
\* transcript poll and the timeout rules, and the user typing on a connection
\* that is not subscribed; the `go onStatus` goroutines are left pending
InitTrack ==
    InitWith({1}, {}, TRUE,
             [msgs |-> TrackMsgs, reads |-> TrackReads, changes |-> TrackChanges,
              exits |-> 0, signals |-> 0, out |-> <<>>, slow |-> {}])

TrackReadLoop(k) ==
    \/ ReadSelect(k)
    \/ ReadAppend(k)
    \/ DetectStatus(k)
    \/ BroadcastOutputBegin(k)
    \/ OutputGetStatus(k)
    \/ BroadcastStatusBegin(k)
    \/ scheduleScrollbackSave(k)

TrackMonitor(k) ==
    \/ TickerFires(k)
    \/ pollClaudeTranscript(k)
    \/ checkTimeouts(k)

NextTrack ==
    \/ \E k \in Kids : TrackReadLoop(k)
    \/ \E k \in Kids : TrackMonitor(k)
    \/ \E c \in Conns : PaneWrite(c)

SpecTrack == InitTrack /\ [][NextTrack]_vars

\* ---- a slow consumer ---------------------------------------------------------
\* connection 2 is subscribed and its peer has stopped reading, so that its
\* transport takes no frame until it drains; connection 1 is open and may
\* subscribe while the read loop emits
InitSlow ==
    InitWith(Conns, {2}, TRUE,
             [msgs |-> MaxMsgs, reads |-> MaxReads, changes |-> 0, exits |-> 1,
              signals |-> 0, out |-> <<>>, slow |-> {2}])

NextSlow ==
    \/ SubscribeStep
    \/ ReadLoopStep
    \/ \E k \in Kids : BroadcastOutputBlocks(k)
    \/ \E d \in Conns : TransportDrains(d)
    \/ \E k \in Kids : ChildExits(k)

SpecSlow == InitSlow /\ [][NextSlow]_vars

\* ---- the aggregate status ------------------------------------------------------
\* a session of up to MaxPanes panes, each in any status, and any status of the
\* session left by the onStatus notifications; UpdateSessionStatus is called
InitStatus ==
    \E n \in 0..MaxPanes : \E f \in [1..n -> Statuses] : \E s \in Statuses :
        /\ exists = TRUE
        /\ sessStatus = s
        /\ mainPane = IF n > 0 THEN 1 ELSE 0
        /\ nPanes = n
        /\ paneLayout = IF n > 0 THEN RootLayout("main") ELSE NilLayout
        /\ paneKeys = {PaneKey(g) : g \in 1..n}
        /\ panes = [g \in Panes |->
                      IF g <= n THEN [NewPane EXCEPT !.status = f[g]]
                      ELSE NewPane]
        /\ nKids = 0
        /\ kids = [k \in Kids |-> NoKid]
        /\ rd = [k \in Kids |-> NoLoop]
        /\ mon = [k \in Kids |-> NoMon]
        /\ statusCalls = [st \in Statuses |-> 0]
        /\ conns = {}
        /\ subs = [c \in Conns |-> FALSE]
        /\ hpc = [c \in Conns |-> "idle"]
        /\ hloc = [c \in Conns |-> NoLocals]
        /\ recv = [c \in Conns |-> <<>>]
        /\ hmuReaders = 0
        /\ saveTimer = <<>>
        /\ files = NewFiles(CreatedSession("work", ""))
        /\ mgr = NewManager(CreatedSession("work", ""))
        /\ nChunks = 0
        /\ chunkLoop = <<>>
        /\ seenBefore = [c \in Conns |-> {}]
        /\ subAt = [c \in Conns |-> 0]
        /\ msgLog = <<>>
        /\ thr = NoThreads
        /\ budget = [msgs |-> StatusCalls, reads |-> 0, changes |-> 0,
                     exits |-> 0, signals |-> 0, out |-> <<>>, slow |-> {}]

NextStatus == UpdateSessionStatus

SpecStatus == InitStatus /\ [][NextStatus]_vars

\* ---- input and resize -------------------------------------------------------
\* a fresh session and one connection that starts and restarts it, types and
\* resizes; a start may fail
InitInput ==
    InitWith({1}, {}, FALSE,
             [msgs |-> InputMsgs, reads |-> 0, changes |-> 0, exits |-> 0,
              signals |-> 0, out |-> <<>>, slow |-> {}])

\* (nothing is read here, so the scrollback is empty and handleSubscribe sends no
\* snapshot)
NextInput ==
    \/ \E c \in Conns :
          \/ handleStart(c) \/ SubscribeSnapshot(c)
          \/ SessionStartGetPane(c) \/ CreatePane(c) \/ PaneStart(c)
          \/ PaneStartFails(c) \/ SessionStartStatus(c) \/ handleRestart(c)
    \/ \E c \in Conns : PaneWrite(c)
    \/ \E c \in Conns : PaneResize(c)

SpecInput == InitInput /\ [][NextInput]_vars

\* ---- delete -----------------------------------------------------------------
\* a running session with one subscriber, whose child writes; the session is
\* deleted through the REST handler while the debounce timer may be pending
InitDelete ==
    InitWith({1}, {1}, TRUE,
             [msgs |-> DeleteMsgs, reads |-> MaxReads, changes |-> 0,
              exits |-> 1, signals |-> 0, out |-> <<>>, slow |-> {}])

NextDelete ==
    \/ ReadLoopStep
    \/ SaveTimerFires
    \/ DeleteRequest
    \/ ManagerDelete
    \/ \E k \in Kids : ChildExits(k)

SpecDelete == InitDelete /\ [][NextDelete]_vars

\* ---- metadata round trip ------------------------------------------------------
\* a session created plain or as an experiment, started or not; it is renamed,
\* customized, an agent session is detected; the process is shut down and the
\* next process loads the storage directory
InitPersist ==
    \E name \in SessionNames : \E parent \in {"", "p1"} : \E started \in BOOLEAN :
        InitSession({}, {}, started,
                    [msgs |-> PersistMsgs, reads |-> 0, changes |-> PersistChanges,
                     exits |-> 0, signals |-> 1, out |-> <<>>, slow |-> {}],
                    CreatedSession(name, parent))

NextPersist ==
    \/ \E name \in SessionNames : HandleRename(name)
    \/ \E name \in SessionNames \cup {""} : \E model \in RobotModels :
           HandleCustomize(name, model)
    \/ \E found \in ClaudeSessionIDs : DetectClaudeSession(found)
    \/ Shutdown
    \/ NewManagerLoads

SpecPersist == InitPersist /\ [][NextPersist]_vars

\* ---- the debounced save ---------------------------------------------------------
\* a running session whose connection is subscribed, with a peer that reads or
\* has stopped reading; the child prints and the clock runs.  The goroutine of
\* the read loop, the clock and a due timer go on when they can; nothing is
\* assumed of the child or of the peer.
InitSave ==
    \E slow \in SUBSET {1} :
        InitWith({1}, {1}, TRUE,
                 [msgs |-> 0, reads |-> SaveReads, changes |-> 0, exits |-> 1,
                  signals |-> 0, out |-> <<>>, slow |-> slow])

NextSave ==
    \/ ReadLoopStep
    \/ \E k \in Kids : BroadcastOutputBlocks(k)
    \/ \E d \in Conns : TransportDrains(d)
    \/ SaveClockTick
    \/ SaveTimerExpires
    \/ \E k \in Kids : ChildExits(k)

FairnessSave ==
    /\ \A k \in Kids : WF_vars(ReadLoop(k))
    /\ WF_vars(SaveClockTick)
    /\ WF_vars(SaveTimerExpires)

SpecSave == InitSave /\ [][NextSave]_vars /\ FairnessSave

\* ---- the layout tree ------------------------------------------------------------
\* a session whose main pane has been created; panes are split off and removed
InitLayout ==
    /\ InitWith({}, {}, TRUE,
                [msgs |-> LayoutOps, reads |-> 0, changes |-> 0, exits |-> 0,
                 signals |-> 0, out |-> <<>>, slow |-> {}])

NextLayout ==
    \/ \E paneID \in PaneIDs : \E newPaneID \in PaneIDs : \E direction \in Directions :
           SplitLayout(paneID, newPaneID, direction)
    \/ \E paneID \in PaneIDs : RemoveFromLayout(paneID)

SpecLayout == InitLayout /\ [][NextLayout]_vars

\* ---- subscriptions --------------------------------------------------------------
\* a running session and two open connections that subscribe, unsubscribe and
\* close while the read loop emits
InitSub ==
    InitWith(Conns, {}, TRUE,
             [msgs |-> SubMsgs, reads |-> SubReads, changes |-> 0, exits |-> 0,
              signals |-> 0, out |-> <<>>, slow |-> {}])

NextSub ==
    \/ SubscribeStep
    \/ \E c \in Conns : handleUnsubscribe(c)
    \/ \E c \in Conns : ConnectionClosed(c)
    \/ \E k \in Kids :
          \/ ReadSelect(k) \/ ReadAppend(k) \/ ReadDetect(k)
          \/ BroadcastOutputBegin(k) \/ BroadcastOutputSend(k)
          \/ OutputGetStatus(k) \/ BroadcastStatusBegin(k) \/ BroadcastStatusSend(k)
          \/ scheduleScrollbackSave(k)

SpecSub == InitSub /\ [][NextSub]_vars

\* ---- the monitor of a pane whose child may end -------------------------------------
\* one running pane: its read loop classifies a chunk, the child may end by
\* itself (the read loop then marks the pane stopped and returns; done stays
\* open), the user types, and the monitor goes on ticking
InitTick ==
    InitWith({1}, {}, TRUE,
             [msgs |-> TickMsgs, reads |-> TickReads, changes |-> TickChanges,
              exits |-> 1, signals |-> 0, out |-> <<>>, slow |-> {}])

NextTick ==
    \/ \E k \in Kids : TrackReadLoop(k) \/ ReadError(k) \/ ReadErrorNotify(k)
    \/ \E k \in Kids : TrackMonitor(k)
    \/ \E k \in Kids : ChildExits(k)
    \/ \E c \in Conns : PaneWrite(c)

SpecTick == InitTick /\ [][NextTick]_vars

\* ---- the pane map and the layout --------------------------------------------------
\* a new session: panes are created, split off under pane ids that are new to
\* the session and removed, the session is reset, and the operations without
\* pane id are called
InitPanes ==
    InitWith({}, {}, FALSE,
             [msgs |-> PaneOps, reads |-> 0, changes |-> 0, exits |-> 0,
              signals |-> 0, out |-> <<>>, slow |-> {}])

NextPanes ==
    \/ \E paneID \in PaneIDs : SessionCreatePane(paneID)
    \/ \E paneID \in PaneIDs : \E newPaneID \in PaneIDs : \E direction \in Directions :
           SplitOffPane(paneID, newPaneID, direction)
    \/ \E paneID \in PaneIDs : SessionRemovePane(paneID)
    \/ SessionReset
    \/ \E op \in DelegatedOps : MainPaneOp(op)

SpecPanes == InitPanes /\ [][NextPanes]_vars

\* ---- the locks --------------------------------------------------------------------
\* up to MaxThreads of the threads run together, each once through its code;
\* the peer of the subscribed connection reads or has stopped reading
InitLocks ==
    \E S \in SUBSET ThreadNames : \E slow \in SUBSET {1} :
        /\ S # {} /\ Cardinality(S) <= MaxThreads
        /\ InitThreads({1}, {1}, TRUE,
                       [msgs |-> 0, reads |-> 0, changes |-> 0, exits |-> 0,
                        signals |-> 0, out |-> <<>>, slow |-> slow],
                       CreatedSession("work", ""), StartedThreads(S))

NextLocks ==
    \/ \E n \in ThreadNames :
          \/ ThreadLocks(n) \/ ThreadUnlocks(n) \/ ThreadSection(n)
          \/ ThreadSends(n) \/ ThreadSpawns(n) \/ ThreadCalls(n)
    \/ CallbackRuns

SpecLocks == InitLocks /\ [][NextLocks]_vars


\* ---- resume or shell ---------------------------------------------------------------
\* a session loaded with or without a saved agent session id; one connection
\* sends start and restart messages with and without a size, the oracle answers
\* anything, and a spawn succeeds or fails
InitResume ==
    \E id \in ClaudeSessionIDs :
        InitSession({1}, {}, FALSE,
                    [msgs |-> ResumeMsgs, reads |-> 0, changes |-> 0, exits |-> 0,
                     signals |-> 0, out |-> <<>>, slow |-> {}],
                    [CreatedSession("work", "") EXCEPT !.LastClaudeSessionID = id])

NextResume ==
    \/ \E c \in Conns : \E data \in MsgSizes : StartMessage(c, data)
    \/ \E c \in Conns : \E data \in MsgSizes : RestartMessage(c, data)
    \/ \E c \in Conns :
          \/ SubscribeSnapshot(c)
          \/ SessionStartGetPane(c) \/ CreatePane(c)
          \/ PaneStart(c) \/ PaneStartFails(c) \/ SessionStartStatus(c)

SpecResume == InitResume /\ [][NextResume]_vars

\* ---- the writers of one connection --------------------------------------------------
\* the threads that send to the subscribed connection run together, each once
\* through its code; the peer reads or has stopped reading
InitWrite ==
    \E slow \in SUBSET {1} :
        InitThreads({1}, {1}, TRUE,
                    [msgs |-> 0, reads |-> 0, changes |-> 0, exits |-> 0,
                     signals |-> 0, out |-> <<>>, slow |-> slow],
                    CreatedSession("work", ""), StartedThreads(WriterNames))

NextWrite ==
    \/ \E n \in WriterNames :
          \/ ThreadLocks(n) \/ ThreadUnlocks(n) \/ ThreadSection(n)
          \/ ThreadSends(n) \/ ThreadSpawns(n) \/ ThreadCalls(n)
    \/ CallbackRuns

SpecWrite == InitWrite /\ [][NextWrite]_vars

\* ---- what a connection has received ----------------------------------------
\* frame i of connection c carries live chunk x
LiveAt(c, i, x) ==
    recv[c][i].kind = "output" /\ recv[c][i].src = "live" /\ recv[c][i].chunk = x

\* frame i of connection c is a scrollback snapshot
SnapshotAt(c, i) == recv[c][i].kind = "output" /\ recv[c][i].src = "snap"

\* connection c has been sent bytes of chunk x, in a snapshot or live
Observed(c, x) ==
    \E i \in 1..Len(recv[c]) :
        recv[c][i].kind = "output" /\ x \in Range(recv[c][i].data)

\* number of status frames carrying st that connection c has received
StatusFrames(c, st) ==
    Cardinality({i \in 1..Len(recv[c]) :
                    recv[c][i].kind = "status" /\ recv[c][i].status = st})

\* ---- C1 --------------------------------------------------------------------
\* C1: a connection whose handleSubscribe has returned misses no chunk: every
\* chunk whose fan-out was not over when the subscription was inserted, and is
\* over now, has been sent to it (in the snapshot or live); and from the first
\* chunk it has been sent on there is no gap: every later chunk of that read
\* loop whose fan-out is over has been sent to it too.
C1_NoGap ==
    \A c \in Conns :
        (subs[c] /\ SubscribeReturned(c)) =>
            /\ \A x \in FannedOut \ seenBefore[c] : Observed(c, x)
            /\ \A x, y \in FannedOut :
                  (x < y /\ chunkLoop[x] = chunkLoop[y] /\ Observed(c, x)) => Observed(c, y)

\* a connection subscribed while a chunk was between its append and the end of
\* its fan-out, and has been sent that chunk twice: in the snapshot and live
C1_Witness ==
    \E c \in Conns : \E x \in FannedOut \ seenBefore[c] :
        /\ subs[c] /\ SubscribeReturned(c)
        /\ x <= subAt[c]
        /\ \E i, j \in 1..Len(recv[c]) :
              SnapshotAt(c, i) /\ x \in Range(recv[c][i].data) /\ LiveAt(c, j, x)

\* ---- C2 --------------------------------------------------------------------
\* C2: when the snapshot of a new subscription is about to be written, no live
\* output frame has reached the connection since the subscription was inserted.
C2_SnapshotFirst ==
    \A c \in Conns :
        (hpc[c] = "sub_send" /\ hloc[c].fresh) =>
            \A i \in (hloc[c].mark + 1)..Len(recv[c]) : recv[c][i].src # "live"

\* ---- C3 --------------------------------------------------------------------
\* C3: the live output frames a connection receives from one read loop are in
\* emission order, and a connection that receives the frame of chunk Y has
\* received, earlier, the frame of every chunk X that the same read loop
\* emitted before Y while the connection was subscribed.
C3_EmissionOrder ==
    \A c \in Conns :
        /\ \A i, j \in 1..Len(recv[c]) :
              (/\ i < j
               /\ recv[c][i].src = "live" /\ recv[c][j].src = "live"
               /\ chunkLoop[recv[c][i].chunk] = chunkLoop[recv[c][j].chunk])
              => recv[c][i].chunk < recv[c][j].chunk
        /\ \A j \in 1..Len(recv[c]) : \A x \in 1..nChunks :
              (/\ recv[c][j].src = "live"
               /\ x < recv[c][j].chunk /\ x > subAt[c]
               /\ chunkLoop[x] = chunkLoop[recv[c][j].chunk])
              => \E i \in 1..(j - 1) : LiveAt(c, i, x)

\* both connections were subscribed when chunks 1 and 2 were emitted and each
\* has the two live frames
C3_Witness ==
    /\ nChunks >= 2
    /\ \A c \in Conns :
          /\ subs[c] /\ subAt[c] = 0
          /\ \E i, j \in 1..Len(recv[c]) : i < j /\ LiveAt(c, i, 1) /\ LiveAt(c, j, 2)

\* ---- C10 -------------------------------------------------------------------
\* C10: no pane's scrollback is longer than the cap.
C10_ScrollbackCap == \A g \in Panes : Len(panes[g].scrollback) <= ScrollbackCap

\* a scrollback at the cap from which head bytes were dropped: chunk 1 was two
\* bytes long (its live frame shows it) and only one of them is left
C10_Witness ==
    \E g \in Panes : \E c \in Conns : \E i \in 1..Len(recv[c]) :
        /\ Len(panes[g].scrollback) = ScrollbackCap
        /\ LiveAt(c, i, 1) /\ Len(recv[c][i].data) = 2
        /\ Cardinality({n \in 1..ScrollbackCap : panes[g].scrollback[n] = 1}) = 1

\* ---- lifecycle claims ------------------------------------------------------
\* number of messages m handled so far
Handled(m) == Cardinality({i \in 1..Len(msgLog) : msgLog[i] = m})

\* no handler goroutine is inside a message
HandlersIdle == \A c \in Conns : hpc[c] = "idle"

\* a step that runs Pane.Stop on the pane of the session's map
StopApplied ==
    /\ mainPane # 0
    /\ (\E c \in Conns : SessionStop(c) \/ handleRestart(c)) \/ ManagerDelete

\* ---- C4 --------------------------------------------------------------------
\* C4: Pane.Stop on a pane that is already stopped (status stopped, done
\* closed) leaves every field of the pane as it is, and no pane's done is
\* closed more than once, however the Stop calls of stop messages, restarts
\* and deletes interleave.
C4_StopIdempotent ==
    /\ [][(StopApplied /\ panes[mainPane].status = "stopped" /\ panes[mainPane].done)
            => panes'[mainPane] = panes[mainPane]]_vars
    /\ [](\A g \in Panes : panes[g].closes <= 1)

\* two stop messages have been handled to the end on a started pane: stopped,
\* done closed once
C4_Witness ==
    /\ Handled("stop") >= 2 /\ HandlersIdle
    /\ mainPane # 0
    /\ panes[mainPane].starts >= 1
    /\ panes[mainPane].status = "stopped"
    /\ panes[mainPane].done /\ panes[mainPane].closes = 1

\* ---- C5 --------------------------------------------------------------------
\* C5: after start, stop, stop have been handled and the start launched the
\* shell, every subscribed connection has received exactly one status frame
\* carrying stopped.
C5_OneStoppedFrame ==
    (/\ msgLog = <<"start", "stop", "stop">> /\ HandlersIdle
     /\ mainPane # 0 /\ panes[mainPane].starts = 1) =>
        \A c \in Subscribers : StatusFrames(c, "stopped") = 1

\* ---- C8 --------------------------------------------------------------------
\* the read loops of pane g that have not returned
LiveReadLoops(g) == {k \in Kids : rd[k].pane = g /\ rd[k].pc \notin {"none", "exit"}}

\* the monitor loops of pane g that have not returned
LiveMonitors(g) == {k \in Kids : mon[k].pane = g /\ mon[k].pc \notin {"none", "exit"}}

\* C8: every pane has at most one live read loop and at most one live monitor
\* loop, and has been started at most once.
C8_OneLoopPerPane ==
    \A g \in Panes :
        /\ Cardinality(LiveReadLoops(g)) <= 1
        /\ Cardinality(LiveMonitors(g)) <= 1
        /\ panes[g].starts <= 1

\* ---- C9 --------------------------------------------------------------------
\* C9: once Manager.Delete has returned, and once the shutdown handler has
\* run, no child that was ever spawned is alive.
C9_NoOrphans ==
    (mgr.del = "done" \/ mgr.exited) => \A k \in 1..nKids : ~kids[k].alive

\* ---- C20 -------------------------------------------------------------------
\* C20: a pane whose status is error, which only a Pane.Start that could not
\* spawn its child leaves, holds no PTY that is open.
C20_FailedStartHoldsNoPty ==
    \A g \in Panes :
        panes[g].status = "error" =>
            panes[g].pty = 0 \/ ~kids[panes[g].pty].ptyOpen

\* ---- liveness claims -------------------------------------------------------
\* ---- C6 --------------------------------------------------------------------
\* C6: whenever the pane of a started read loop and monitor loop has status
\* stopped, both loops eventually return.
C6_LoopsTerminate ==
    \A k \in Kids :
        (rd[k].pc # "none" /\ panes[rd[k].pane].status = "stopped")
            ~> (rd[k].pc = "exit" /\ mon[k].pc = "exit")

\* ---- C7 --------------------------------------------------------------------
\* C7: when a read loop has seen its PTY read fail and has set the pane's
\* status to stopped, every subscribed connection eventually holds a status
\* frame carrying stopped.
C7_StoppedBroadcast ==
    \A k \in Kids : \A c \in Conns :
        (rd[k].pc = "err_cb" /\ panes[rd[k].pane].status = "stopped" /\ subs[c])
            ~> (StatusFrames(c, "stopped") >= 1)

\* ---- C16 -------------------------------------------------------------------
\* C16: when the main pane has been moved to thinking, executing or
\* waiting_input (by the classification of a chunk, by a timeout rule or by the
\* transcript poll), every subscribed connection eventually holds a status
\* frame carrying that status, or is no longer subscribed.
C16_ChangeBroadcast ==
    \A c \in Conns : \A st \in {"thinking", "executing", "waiting_input"} :
        (mainPane # 0 /\ panes[mainPane].status = st /\ subs[c])
            ~> (StatusFrames(c, st) >= 1 \/ ~subs[c])

\* ---- C18 -------------------------------------------------------------------
\* C18: once every onStatus notification has been processed, Session.Status is
\* the status the tracker gave the main pane last (thinking, executing or
\* waiting_input), not an older one.
C18_LastStatusWins ==
    (/\ \A st \in Statuses : statusCalls[st] = 0
     /\ mainPane # 0
     /\ panes[mainPane].status \in {"thinking", "executing", "waiting_input"})
        => sessStatus = panes[mainPane].status

\* ---- read loop claims ------------------------------------------------------
\* the last n bytes of s, all of s when it is shorter
LastBytes(s, n) == IF Len(s) > n THEN SubSeq(s, Len(s) - n + 1, Len(s)) ELSE s

\* the length of the UTF-8 sequence that start byte b opens; 0 for a
\* continuation byte
SeqLen(b) ==
    IF b < 128 THEN 1
    ELSE IF b >= 192 /\ b < 224 THEN 2
    ELSE IF b >= 224 /\ b < 240 THEN 3
    ELSE IF b >= 240 /\ b < 248 THEN 4
    ELSE 0

\* s is a sequence of whole UTF-8 sequences: it does not begin with a
\* continuation byte and does not end inside a sequence
RECURSIVE WholeSequences(_)
WholeSequences(s) ==
    \/ s = <<>>
    \/ /\ SeqLen(s[1]) >= 1 /\ SeqLen(s[1]) <= Len(s)
       /\ \A i \in 2..SeqLen(s[1]) : SeqLen(s[i]) = 0
       /\ WholeSequences(SubSeq(s, SeqLen(s[1]) + 1, Len(s)))

\* ---- C11 -------------------------------------------------------------------
\* C11: every pane's scrollback is the last min(cap, total) bytes of all that
\* was appended to it since it was created, and an append of one byte to a
\* scrollback that is at the cap drops exactly its first byte.
C11_ScrollbackTail ==
    /\ [](\A g \in Panes :
            panes[g].scrollback = LastBytes(panes[g].emitted, ScrollbackCap))
    /\ [][\A g \in Panes :
            (/\ Len(panes[g].scrollback) = ScrollbackCap
             /\ Len(panes'[g].emitted) = Len(panes[g].emitted) + 1)
            => panes'[g].scrollback =
                 Tail(panes[g].scrollback)
                    \o <<panes'[g].emitted[Len(panes'[g].emitted)]>>]_vars

\* a one-byte chunk has just been appended to a scrollback that was at the cap
C11_Witness ==
    \E k \in Kids :
        /\ rd[k].pc = "detect" /\ Len(rd[k].data) = 1
        /\ Len(panes[rd[k].pane].emitted) > ScrollbackCap
        /\ Len(panes[rd[k].pane].scrollback) = ScrollbackCap

\* ---- C12 -------------------------------------------------------------------
\* C12: the chunk the read loop has in hand for on_output is made of whole
\* UTF-8 sequences, and so is all that was appended to the scrollback.
C12_WholeChunks ==
    /\ \A k \in Kids : WholeSequences(rd[k].data)
    /\ \A g \in Panes : WholeSequences(panes[g].emitted)

\* a Read ended inside a multi-byte sequence: a chunk was emitted and the
\* start of the sequence is carried
C12_Witness ==
    \E k \in Kids :
        /\ rd[k].pc = "detect" /\ Len(rd[k].pending) >= 2
        /\ Len(rd[k].data) >= 1

\* ---- C13 -------------------------------------------------------------------
\* the carry the read loop held when its last Read returned
CarryBefore(k) ==
    SubSeq(rd[k].data \o rd[k].pending, 1,
           Len(rd[k].data) + Len(rd[k].pending) - Len(rd[k].buf))

\* C13: after a Read whose last byte is 0xC3 that byte is carried, not
\* emitted; and when the carry was 0xC3 alone, the next bytes read are emitted
\* in one chunk that begins with 0xC3 and the continuation byte just read.
C13_CarryStartByte ==
    \A k \in Kids :
        /\ (rd[k].buf # <<>> /\ rd[k].buf[Len(rd[k].buf)] = 195) =>
              /\ rd[k].pending = <<195>>
              /\ rd[k].data = <<>> \/ rd[k].data[Len(rd[k].data)] # 195
        /\ (rd[k].buf # <<>> /\ CarryBefore(k) = <<195>>) =>
              /\ rd[k].pc \in {"detect", "bo", "bo_send"}
              /\ Len(rd[k].data) >= 2
              /\ rd[k].data[1] = 195 /\ rd[k].data[2] = rd[k].buf[1]

\* the first Read returned 0xC3 alone and nothing was emitted; the next Read
\* returned the continuation byte and the two were emitted as the first chunk
C13_Witness ==
    \E k \in Kids :
        /\ rd[k].pc = "detect" /\ rd[k].chunk = 1
        /\ rd[k].buf = <<169>> /\ rd[k].data = <<195, 169>>

\* ---- claims about the state tracker ------------------------------------------
\* C14: a pane's claudeActive flag, once set, stays set, and while it is set
\* no step of the read loop or of the monitor moves the pane's status to
\* shell, whatever the newest line of the buffer is
C14_StickyActive ==
    [][\A g \in Panes :
          panes[g].claudeActive =>
             /\ panes'[g].claudeActive
             /\ panes'[g].status = "shell" => panes[g].status = "shell"]_vars

\* a chunk whose line is a shell prompt has been classified on a pane with
\* claudeActive set
C14_Witness ==
    \E k \in Kids :
        /\ rd[k].pc = "bo"
        /\ LET p == panes[rd[k].pane]
           IN /\ p.claudeActive
              /\ Len(p.tracker.lines) >= 2
              /\ p.tracker.lines[Len(p.tracker.lines)].HasShellPrompt
              /\ p.status = "waiting_input"

\* C15: after output left the pane thinking, the silence sees at most one
\* status change, and that one is to waiting_input with confidence at least
\* 0.60 after more than ThinkingTimeout of silence
C15_OneTimeout ==
    \A g \in Panes :
        panes[g].base = "thinking" =>
            /\ Len(panes[g].moves) <= 1
            /\ \A i \in 1..Len(panes[g].moves) :
                  /\ panes[g].moves[i].to = "waiting_input"
                  /\ panes[g].moves[i].conf >= 60
                  /\ panes[g].moves[i].quiet > ThinkingTimeout

\* ---- claims about slow consumers ---------------------------------------------
\* the fan-out of read loop k is inside a WriteMessage that does not return
BlockedAt(k, d) == rd[k].pc = "bo_send" /\ rd[k].at = d /\ ~Accepts(d)

\* C17: while a fan-out waits in the send to a connection, it holds nothing
\* that another connection needs: no frame of it is still to be sent to
\* another connection, and h.mu, which handleSubscribe, connect, disconnect
\* and scheduleScrollbackSave lock, is not read-locked
C17_BlocksOnlyItself ==
    \A k \in Kids : \A d \in Conns :
        BlockedAt(k, d) => rd[k].todo = {d} /\ hmuReaders = 0

\* ---- claims about the aggregate status ---------------------------------------
\* the claimed order, lowest first
PriorityOrder ==
    <<"idle", "stopped", "shell", "waiting_input", "executing", "thinking",
      "error">>

Rank(st) == CHOOSE i \in 1..Len(PriorityOrder) : PriorityOrder[i] = st

C21_WriteStampsOnSuccess ==
    \A g \in Panes :
        LET io == panes[g].lastIO
        IN /\ (io.op # "none" /\ ~io.hadPty) => io.res = "closed"
           /\ io.op = "write" => (io.stamped <=> io.res = "ok")

\* ---- claims about delete ------------------------------------------------------
\* C22: once Manager.Delete has returned, the session is not in the registry,
\* its main pane is stopped, and neither its metadata file nor its scrollback
\* file exists, in every later state
C22_DeletedStaysDeleted ==
    mgr.del = "done" =>
        /\ ~exists
        /\ mainPane # 0 => panes[mainPane].status = "stopped"
        /\ ~files.json /\ ~files.sb

\* ---- claims: persistence -----------------------------------------------------
\* the fields the round trip is to keep
KeptFields == {"ID", "Name", "Directory", "ParentID", "WorktreePath", "Branch",
               "Color", "Position", "Metadata", "RobotModel", "RobotColor",
               "RobotAccessory", "HexQ", "HexR", "LastClaudeSessionID"}

\* C23: the session loaded from the storage directory has the id, name,
\* directory, parent id, worktree path, branch, customization fields and last
\* agent session id the session had when it was saved, and status idle
C23_RoundTrip ==
    mgr.loaded # NoSession =>
        /\ \A f \in KeptFields : mgr.loaded[f] = mgr.saved.s[f]
        /\ mgr.loaded.Status = "idle"

\* ---- claims: the debounced save -----------------------------------------------
\* the child will print nothing more
OutputStopped == budget.reads = 0 \/ (nKids > 0 /\ ~kids[nKids].alive)

\* <id>.scrollback holds the session's scrollback as it is now
ScrollbackSaved ==
    \/ GetScrollback = <<>>
    \/ files.sb /\ files.sbData = GetScrollback

\* C24: at most one save timer is pending, a timer fires only when the whole
\* delay has passed since the last output armed it, and once output has stopped
\* a save eventually writes the scrollback as it then is to <id>.scrollback
C24_OnePendingTimer == Len(saveTimer) <= 1

C24_FiresAfterDelay ==
    [][Len(saveTimer') < Len(saveTimer) => saveTimer[Len(saveTimer)] = 0]_vars

C24_DebouncedSave ==
    /\ []C24_OnePendingTimer
    /\ C24_FiresAfterDelay
    /\ OutputStopped ~> ScrollbackSaved

\* ---- claims: the layout tree ---------------------------------------------------
\* what the claim compares: the shape of the tree, the pane ids of its leaves
\* in order and the directions of its splits
RECURSIVE LayoutShape(_)
LayoutShape(node) ==
    IF node.Children = <<>> THEN [pane |-> node.PaneID]
    ELSE [direction |-> node.Direction,
          children |-> [i \in 1..Len(node.Children) |-> LayoutShape(node.Children[i])]]

\* the last two operations, after the start of the session, split leaf L of a
\* layout by a new pane N and removed N
SplitThenRemoved ==
    /\ Len(msgLog) >= 3
    /\ LET s == msgLog[Len(msgLog) - 1]
           r == msgLog[Len(msgLog)]
       IN /\ s.op = "split" /\ r.op = "remove" /\ r.pane = s.new
          /\ s.pane \in Range(LayoutLeaves(s.before))

\* C25: splitting a leaf L by a fresh pane N and then removing N gives back a
\* tree of the same shape, with the same leaves in the same order and the same
\* split directions
C25_SplitRemove ==
    SplitThenRemoved =>
        /\ paneLayout # NilLayout
        /\ LayoutShape(paneLayout) = LayoutShape(msgLog[Len(msgLog) - 1].before)

\* the split leaf was the second leaf of a tree with a nested split
C25_Witness ==
    /\ SplitThenRemoved
    /\ LET s == msgLog[Len(msgLog) - 1]
       IN /\ Len(LayoutLeaves(s.before)) >= 2
          /\ s.pane # LayoutLeaves(s.before)[1]
    /\ C25_SplitRemove

\* ---- claims: restart -----------------------------------------------------------
\* the session was started, stopped and restarted, the restart has returned
\* with the new shell running, and the new pane has printed nothing and no
\* timeout has moved it
RestartedQuiet ==
    /\ msgLog = <<"start", "stop", "restart">> /\ HandlersIdle
    /\ mainPane # 0 /\ panes[mainPane].pty # 0
    /\ kids[panes[mainPane].pty].alive
    /\ panes[mainPane].emitted = <<>>
    /\ panes[mainPane].moves = <<>>

\* C26: after start, stop and restart the scrollback is empty and the session
\* is in status shell until the new shell prints or a timeout acts, whatever the
\* goroutines of the discarded pane do
C26_RestartFresh ==
    RestartedQuiet => GetScrollback = <<>> /\ sessStatus = "shell"

\* ---- claims: subscriptions ------------------------------------------------------
\* C27: a frame goes out to a connection only while the connection is open and
\* the session is in its subscription set; hence none after it unsubscribed or
\* closed
C27_SentOnlyToSubscribers ==
    [][\A c \in Conns : Len(recv'[c]) > Len(recv[c]) => c \in conns /\ subs[c]]_vars

\* a connection received a live chunk, unsubscribed (or closed), and a later
\* chunk has been fanned out to the other connection and not to it
C27_Witness ==
    \E c, d \in Conns : \E x, y \in FannedOut :
        /\ c # d /\ x < y
        /\ ~subs[c]
        /\ \E i \in 1..Len(recv[c]) : LiveAt(c, i, x)
        /\ \E j \in 1..Len(recv[d]) : LiveAt(d, j, y)
        /\ ~Observed(c, y)

\* ---- claims: classification -----------------------------------------------------
\* the strong transitions, as the claim lists them
StrongPairs ==
    ({"shell"} \X {"thinking", "executing", "waiting_input"})
        \cup ({"thinking", "executing"} \X {"waiting_input"})

\* the status a classification of new with confidence conf is to leave behind
StatusAfter(old, new, conf) ==
    IF new # old /\ (conf >= 60 \/ <<old, new>> \in StrongPairs) THEN new ELSE old

\* C28: after a chunk was classified, and until the monitor acts, the pane has
\* the new status if it differs from the old one and the confidence is at least
\* 0.60 or the transition is strong, and the old status otherwise
C28_ChangeRule ==
    \A g \in Panes :
        LET a == panes[g].analyzed
        IN (a.st # "none" /\ panes[g].moves = <<>>) =>
              panes[g].status = StatusAfter(a.old, a.st, a.conf)

\* a classification below 0.60 on a transition that is not strong was dropped
C28_Witness ==
    \E g \in Panes :
        LET a == panes[g].analyzed
        IN /\ a.st \notin {"none", a.old} /\ a.conf < 60
           /\ <<a.old, a.st>> \notin StrongPairs
           /\ panes[g].moves = <<>>
           /\ panes[g].status = a.old

\* the newest lines of a buffer that the claim looks at
NewestLines(lines) ==
    {lines[i] : i \in {j \in 1..Len(lines) : j > Len(lines) - RecentLines}}

\* the result the claim gives for these newest lines, a context verdict, an I/O
\* verdict and the current status
ClaimedState(newest, ctx, io, current) ==
    IF \E l \in newest : l.HasSpinner THEN <<"thinking", 95>>
    ELSE IF \E l \in newest : l.HasToolPattern THEN <<"executing", 90>>
    ELSE IF ctx[2] >= 80 THEN ctx
    ELSE IF io[2] >= 70 THEN io
    ELSE IF ctx[2] >= 50 /\ io[2] >= 50 /\ ctx[1] = io[1]
    THEN <<ctx[1], (ctx[2] + io[2]) \div 2>>
    ELSE IF ctx[2] >= 50 THEN ctx
    ELSE <<current, 40>>

ThinkingRule(p, q) ==
    /\ p.status = "thinking" /\ p.tracker.quiet > ThinkingTimeout
    /\ q.status = "waiting_input" /\ q.tracker.confidence = 60

ExecutingRule(p, q) ==
    /\ p.status = "executing" /\ p.tracker.held > ExecutingTimeout
    /\ q.status = "waiting_input" /\ q.tracker.confidence = 50

TypedRule(p, q) ==
    /\ p.status \in {"shell", "waiting_input"}
    /\ p.tracker.typed >= 1 /\ p.tracker.typed <= InputWindow
    /\ p.tracker.inputLater /\ p.claudeActive
    /\ q.status = "thinking" /\ q.tracker.confidence = 70

\* C30: a step of checkTimeouts changes the status by one of the three timeout
\* rules only, and no step of a monitor tick changes the status of a pane that
\* is stopped, in error or idle
C30_TickRules ==
    [][\A k \in Kids :
          LET g == mon[k].pane
          IN (g # 0 /\ mon'[k] # mon[k] /\ panes'[g].status # panes[g].status) =>
                /\ panes[g].status \notin {"stopped", "error", "idle"}
                /\ mon[k].pc = "timeouts" =>
                      \/ ThinkingRule(panes[g], panes'[g])
                      \/ ExecutingRule(panes[g], panes'[g])
                      \/ TypedRule(panes[g], panes'[g])]_vars

\* the timeout rules alone: a step of checkTimeouts changes the status by one of
\* the three rules, and never from stopped, error or idle
TimeoutRulesOnly ==
    [][\A k \in Kids :
          LET g == mon[k].pane
          IN (g # 0 /\ mon[k].pc = "timeouts" /\ mon'[k] # mon[k]
                /\ panes'[g].status # panes[g].status) =>
                /\ panes[g].status \notin {"stopped", "error", "idle"}
                /\ \/ ThinkingRule(panes[g], panes'[g])
                   \/ ExecutingRule(panes[g], panes'[g])
                   \/ TypedRule(panes[g], panes'[g])]_vars

\* ---- claims: the pane map and the layout ---------------------------------------------
\* every node that is not a leaf has exactly two children, and so below it
RECURSIVE TwoChildren(_)
TwoChildren(node) ==
    IF node.PaneID # "" THEN node.Children = <<>>
    ELSE /\ Len(node.Children) = 2
         /\ \A i \in 1..Len(node.Children) : TwoChildren(node.Children[i])

C32_OneMainPane ==
    \A i, j \in 2..Len(msgLog) : msgLog[i].pane = msgLog[j].pane

\* C38: the pane ids of the leaves of the layout are the keys of the pane map,
\* each of them once
C38_LeavesAreKeys ==
    LET leaves == IF paneLayout = NilLayout THEN <<>> ELSE LayoutLeaves(paneLayout)
    IN /\ Range(leaves) = paneKeys
       /\ \A i, j \in 1..Len(leaves) : i # j => leaves[i] # leaves[j]

\* ---- claims: callbacks and locks ------------------------------------------------------
\* thread n is inside Lock or RLock and the lock is not to be had
WaitsForLock(n) ==
    AtOp(n, {"lock", "cs"}) /\ ~CanLock(NextOp(n).l, NextOp(n).mode)

\* no thread can take a step: each has returned, waits for a lock or is inside
\* a WriteMessage that does not return
NoThreadRuns ==
    /\ \A n \in Threads :
          \/ thr.run[n].todo = <<>>
          \/ WaitsForLock(n)
          \/ AtOp(n, {"send"}) /\ ~Accepts(1)
    /\ thr.cbs > 0 => ~CanLock("s", "w")

\* a thread about to enter the onStatus closure holds neither p.mu nor s.mu
CallbacksOutsideLocks ==
    \A n \in Threads :
        AtOp(n, {"onStatus"}) =>
            thr.run[n].held \cap ({"p", "s"} \X {"r", "w"}) = {}

\* when no thread can run any more, none of them is waiting for a lock
NoLockWaitsForever ==
    NoThreadRuns =>
        /\ \A n \in Threads : ~WaitsForLock(n)
        /\ thr.cbs = 0

\* C33: the onStatus closure is entered by threads that hold neither the pane
\* lock nor the session lock, and no thread is left waiting for a lock for ever
C33_CallbacksAndLocks == CallbacksOutsideLocks /\ NoLockWaitsForever

\* the same while every WriteMessage returns
LocksWithoutStalledPeer == budget.slow = {} => C33_CallbacksAndLocks

\* ---- C34 ---------------------------------------------------------------------------
\* the case in which the claim has the agent CLI resumed: the session's saved
\* agent session id is set, the oracle's active session has that id and a
\* modified time less than 24 h old, and the resume spawn did not fail
ResumeCase(c) ==
    /\ mgr.sess.LastClaudeSessionID # ""
    /\ hloc[c].oracle # NoEntry
    /\ hloc[c].oracle.id = mgr.sess.LastClaudeSessionID
    /\ hloc[c].oracle.parses /\ hloc[c].oracle.age < ResumeWindow
    /\ hloc[c].resume # "failed"

\* connection c's handler spawns a child in this step
Spawns(c) == hpc[c] = "st_pstart" /\ hpc'[c] = "st_status"

\* C34: the child a start or restart message spawns is the agent CLI in resume
\* mode exactly when the saved agent session id is set, the oracle's active
\* session has the same id, its modified time is less than 24 h old and the
\* resume spawn succeeds; otherwise it is the shell; and the PTY of a restart
\* has the rows and cols the restart message carries
C34_ResumeOrShell ==
    [][\A c \in Conns :
          Spawns(c) =>
              LET kid == kids'[nKids']
              IN /\ kid.cmd = (IF ResumeCase(c) THEN "resume" ELSE "shell")
                 /\ hloc[c].msg = "restart" /\ hloc[c].data # NoSize
                        => kid.size = hloc[c].data]_vars

\* a restart message with 40 x 120 resumed the agent CLI on a PTY of that size,
\* after a start with 30 x 100
C34_Witness ==
    /\ nKids = 2 /\ kids[1].size = <<30, 100>>
    /\ kids[2].cmd = "resume" /\ kids[2].size = <<40, 120>>
    /\ \E c \in Conns : hpc[c] = "st_status" /\ hloc[c].msg = "restart"

\* a resume spawn failed and the handler started the shell instead
ShellAfterFailedResume ==
    \E c \in Conns : /\ hpc[c] = "st_status" /\ hloc[c].resume = "failed"
                     /\ kids[nKids].cmd = "shell"

\* ---- C35 ---------------------------------------------------------------------------
\* the threads inside conn.WriteMessage on the subscribed connection
Writing == {n \in Threads : AtOp(n, {"send"})}

\* C35: at most one thread is inside WriteMessage on a connection at any time,
\* whether it sends the snapshot of handleSubscribe or a frame of
\* broadcastOutput or broadcastStatus
C35_OneWriter == Cardinality(Writing) <= 1

\* the read loop of one session is inside WriteMessage and the read loop of
\* another waits for the connection's writeMu, as does handleSubscribe with
\* its snapshot
C35_Witness ==
    /\ Writing = {"readOutput"}
    /\ \A n \in {"otherReadOutput", "handleSubscribe"} :
          WaitsForLock(n) /\ NextOp(n).l = "w"

\* ---- C36 ---------------------------------------------------------------------------
\* C36: a pane that Stop has stopped (Stop closes done and stores stopped in one
\* critical section, and nothing starts the pane again here) is in status
\* stopped, whatever its read loop and its monitor still do
C36_StoppedStays ==
    \A g \in Panes : panes[g].done => panes[g].status = "stopped"

\* the same for the steps of the read loop alone: no classification of a chunk
\* changes the status of a pane that Stop has stopped
StoppedKeptByReadLoop ==
    [][\A k \in Kids :
          LET g == rd[k].pane
          IN (g # 0 /\ rd'[k] # rd[k] /\ panes[g].done /\ panes[g].status = "stopped")
                => panes'[g].status = "stopped"]_vars

\* the same for the steps of the monitor alone
StoppedKeptByMonitor ==
    [][\A k \in Kids :
          LET g == mon[k].pane
          IN (g # 0 /\ mon'[k] # mon[k] /\ panes[g].done /\ panes[g].status = "stopped")
                => panes'[g].status = "stopped"]_vars

\* ---- C37 ---------------------------------------------------------------------------
\* the read loop launched with child k has not returned
InLoop(k) == rd[k].pc \notin {"none", "exit"}

\* C37: whatever bytes the PTY returns and however the reads cut them, the
\* chunks the read loop has emitted, one after the other, followed by its carry
\* are the bytes it has read, in their order, and the carry has at most 3 bytes
C37_NothingLost ==
    \A k \in Kids :
        InLoop(k) =>
            /\ panes[rd[k].pane].emitted \o rd[k].pending = rd[k].got
            /\ Len(rd[k].pending) <= 3

\* the loop has read four bytes in more than one read, none of them ASCII; it
\* has emitted some and carries three
C37_Witness ==
    \E k \in Kids :
        /\ InLoop(k) /\ Len(rd[k].got) = 4 /\ Len(rd[k].buf) < 4
        /\ \A i \in 1..4 : rd[k].got[i] >= 128
        /\ Len(rd[k].pending) = 3 /\ Len(panes[rd[k].pane].emitted) = 1
====
